---- MODULE Spec2Model ----
(***************************************************************************)
(* The two AVL trees of c-language-data-structures:                        *)
(*   - the macro-generated sentinel tree  ID##_mavl_*   (m_avl.h)           *)
(*   - the void-pointer NULL-child tree   avl_*        (scl_avl_tree.c)    *)
(* Memory is a heap: a function from the allocated addresses to node       *)
(* records.  A read or write of a freed address is not in the heap's       *)
(* domain and stops the model checker.                                     *)
(***************************************************************************)
EXTENDS Integers, Sequences, FiniteSets, TLC

\* ------------------------------------------------------------------ bounds
\* keys offered to insert / delete / the queries
MaxKey == 5
\* a key is re-inserted only while its count is below this
MaxCount == 2
\* at most this many keys are held with a count above 1 at a time
MaxDup == 1

Keys == 1..MaxKey
\* addresses malloc can hand out: the nodes of the largest run (MaxKey + 7
\* keys), the sentinel, one spare node
Addrs == 1..(MaxKey + 9)

\* the NULL pointer (absent tree handle, absent child, absent payload)
NULL == 0

VARIABLES
  mavl,     \* the ID##_mavl_t handle: NULL or the tree object
  avl,      \* the avl_tree_t* handle: NULL or the tree object
  last,     \* the call that was made last and what it returned
  freed,    \* payloads handed to the destructor by the last call, in order
  visited,  \* payloads handed to the visitor by the last call, in order
  trace,    \* rebalancing cases and rotations of the last call, in order
  mem,      \* what malloc did in the last call: "none" when it was not called
  ins,      \* history: per key, inserts since the key was last absent
  released, \* objects handed to free() by the last destroy call, in order
  stale,    \* freed objects the avl_tree_t* of the caller still leads to
  script,   \* the keys a scripted run inserts, and how many it has inserted
  owed      \* per key: payloads stored minus destructor calls on them
            \* (kept when the run starts with a ledger, else <<>>)

vars == <<mavl, avl, last, freed, visited, trace, mem, ins, released, stale,
          script, owed>>

\* ---------------------------------------------------------------- helpers
MAVL_MAX_VALUES(A, B) == IF A >= B THEN A ELSE B

\* the injected comparator: a total order on the payloads (integer keys)
cmp(a, b) == IF a < b THEN -1 ELSE IF a > b THEN 1 ELSE 0

\* malloc returns an address that is not allocated.  The code compares
\* addresses for equality only, so which free address it is does not matter:
\* the model takes address data + 1 for a node that is to hold data when that
\* is free, and else the least free one.
Malloc(nodes, data) ==
  IF data + 1 \in Addrs \ DOMAIN nodes THEN data + 1
  ELSE CHOOSE a \in Addrs \ DOMAIN nodes :
          \A b \in Addrs \ DOMAIN nodes : a <= b

\* The same heap with every node moved to the address Malloc prefers for the
\* payload it holds now (avl_change_data moves payloads between nodes).  The
\* program cannot tell the two heaps apart; a heap in which two nodes hold
\* equal payloads is left as it is.
Relocate(tree) ==
  LET at(a) == IF a = NULL THEN NULL
               ELSE IF tree.nodes[a].data = NULL THEN a
               ELSE tree.nodes[a].data + 1
      src(b) == CHOOSE a \in DOMAIN tree.nodes : at(a) = b
  IN  IF \A a, b \in DOMAIN tree.nodes : at(a) = at(b) => a = b
      THEN [tree EXCEPT
              !.root = at(tree.root),
              !.nodes = [b \in {at(a) : a \in DOMAIN tree.nodes} |->
                           [tree.nodes[src(b)] EXCEPT !.parent = at(@),
                                                      !.left = at(@),
                                                      !.right = at(@)]]]
      ELSE tree

Free(nodes, a) == [n \in DOMAIN nodes \ {a} |-> nodes[n]]

\* History kept in the tree object while a call runs: the rebalancing cases
\* entered and the rotations done, each with the payload of the node it was
\* applied to; a rotation also notes whether the re-link by comparison put
\* the new sub-root on the side of the parent the pivot occupied.  A pass
\* of an insert or a delete fix-up also notes the balance factors it read:
\* of the node (bf), of its left child (lbf) and of its right child (rbf).
Event(ev, key, ok, bf, lbf, rbf) ==
  [ev |-> ev, key |-> key, ok |-> ok, bf |-> bf, lbf |-> lbf, rbf |-> rbf]

Note(t, ev, key, ok) ==
  [t EXCEPT !.trace = Append(@, Event(ev, key, ok, 0, 0, 0))]

NoteBalance(t, key, bf, lbf, rbf) ==
  [t EXCEPT !.trace = Append(@, Event("balance", key, TRUE, bf, lbf, rbf))]

\* ============================================================ m_avl.h ====
\* ID##_mavl: the sentinel is allocated first, the tree is empty
mavl_create(frd) ==
  LET nil == Malloc(<<>>, NULL)
  IN  [ root |-> nil, nil |-> nil, cmp |-> TRUE, frd |-> frd, size |-> 0,
        trace |-> <<>>,
        nodes |-> (nil :> [data |-> NULL, parent |-> nil, left |-> nil,
                           right |-> nil, count |-> 1, height |-> 0]) ]

\* ID##_internal_mavl_node: a fresh leaf at address a
mavl_node(self, a, data) ==
  [self EXCEPT !.nodes = self.nodes @@
      (a :> [data |-> data, parent |-> self.nil, left |-> self.nil,
             right |-> self.nil, count |-> 1, height |-> 1])]

mavl_upheight(self, n) ==
  IF n # self.nil
  THEN [self EXCEPT !.nodes[n].height =
          MAVL_MAX_VALUES(self.nodes[self.nodes[n].left].height,
                          self.nodes[self.nodes[n].right].height) + 1]
  ELSE self

mavl_balance(self, n) ==
  self.nodes[self.nodes[n].left].height - self.nodes[self.nodes[n].right].height

\* mutant: the re-link that leaves the root pointer as it was
mavl_relink_noroot(self, temp) ==
  LET p == self.nodes[temp].parent
  IN  IF p # self.nil
      THEN IF cmp(self.nodes[temp].data, self.nodes[p].data) >= 1
           THEN [self EXCEPT !.nodes[p].right = temp]
           ELSE [self EXCEPT !.nodes[p].left = temp]
      ELSE self

\* re-link of the rotated sub-root temp below its new parent, by comparison
mavl_relink(self, temp) ==
  LET p == self.nodes[temp].parent
  IN  IF p # self.nil
      THEN IF cmp(self.nodes[temp].data, self.nodes[p].data) >= 1
           THEN [self EXCEPT !.nodes[p].right = temp]
           ELSE [self EXCEPT !.nodes[p].left = temp]
      ELSE [self EXCEPT !.root = temp]

\* mutant: n->parent = p, also when n is the sentinel
mavl_set_parent_any(self, n, p) == [self EXCEPT !.nodes[n].parent = p]

\* n->parent = p unless n is the sentinel
mavl_set_parent(self, n, p) ==
  IF n # self.nil THEN [self EXCEPT !.nodes[n].parent = p] ELSE self

\* dst->parent = src->parent
mavl_copy_parent(self, dst, src) ==
  [self EXCEPT !.nodes[dst].parent = self.nodes[src].parent]

\* the note of a rotation at self_node that made temp the sub-root: before
\* is the tree when the rotation began, after the tree re-linked
mavl_rot_note(before, after, ev, self_node, temp) ==
  LET p == before.nodes[self_node].parent
  IN  Note(after, ev, before.nodes[self_node].data,
           p = before.nil
           \/ (before.nodes[p].left = self_node) = (after.nodes[p].left = temp))

\* the pointer assignments of rotl, in the order of the code
mavl_rotl_links(self, self_node, temp, tl) ==
  mavl_relink(
    [mavl_copy_parent(
       [mavl_set_parent([self EXCEPT !.nodes[self_node].right = tl],
                        tl, self_node)
          EXCEPT !.nodes[temp].left = self_node],
       temp, self_node)
       EXCEPT !.nodes[self_node].parent = temp],
    temp)

mavl_rotl(self, self_node) ==
  IF self_node = self.nil \/ self.nodes[self_node].right = self.nil
  THEN self
  ELSE
    LET temp == self.nodes[self_node].right
    IN  mavl_upheight(
          mavl_upheight(
            mavl_rot_note(self,
                          mavl_rotl_links(self, self_node, temp,
                                          self.nodes[temp].left),
                          "rotl", self_node, temp),
            self_node),
          temp)

\* the pointer assignments of rotr, in the order of the code
mavl_rotr_links(self, self_node, temp, tr) ==
  mavl_relink(
    [mavl_copy_parent(
       [mavl_set_parent([self EXCEPT !.nodes[self_node].left = tr],
                        tr, self_node)
          EXCEPT !.nodes[temp].right = self_node],
       temp, self_node)
       EXCEPT !.nodes[self_node].parent = temp],
    temp)

mavl_rotr(self, self_node) ==
  IF self_node = self.nil \/ self.nodes[self_node].left = self.nil
  THEN self
  ELSE
    LET temp == self.nodes[self_node].left
    IN  mavl_upheight(
          mavl_upheight(
            mavl_rot_note(self,
                          mavl_rotr_links(self, self_node, temp,
                                          self.nodes[temp].right),
                          "rotr", self_node, temp),
            self_node),
          temp)

\* mutant: the descent of find with the two directions exchanged
RECURSIVE mavl_find_from_flipped(_, _, _)
mavl_find_from_flipped(self, iterator, data) ==
  IF iterator = self.nil THEN self.nil
  ELSE IF cmp(self.nodes[iterator].data, data) <= -1
       THEN mavl_find_from_flipped(self, self.nodes[iterator].left, data)
       ELSE IF cmp(self.nodes[iterator].data, data) >= 1
            THEN mavl_find_from_flipped(self, self.nodes[iterator].right, data)
            ELSE iterator

RECURSIVE mavl_find_from(_, _, _)
mavl_find_from(self, iterator, data) ==
  IF iterator = self.nil THEN self.nil
  ELSE IF cmp(self.nodes[iterator].data, data) <= -1
       THEN mavl_find_from(self, self.nodes[iterator].right, data)
       ELSE IF cmp(self.nodes[iterator].data, data) >= 1
            THEN mavl_find_from(self, self.nodes[iterator].left, data)
            ELSE iterator

mavl_find_node(self, data) == mavl_find_from(self, self.root, data)

RECURSIVE mavl_min_node(_, _)
mavl_min_node(self, self_node) ==
  IF self_node # self.nil /\ self.nodes[self_node].left # self.nil
  THEN mavl_min_node(self, self.nodes[self_node].left)
  ELSE self_node

RECURSIVE mavl_max_node(_, _)
mavl_max_node(self, self_node) ==
  IF self_node # self.nil /\ self.nodes[self_node].right # self.nil
  THEN mavl_max_node(self, self.nodes[self_node].right)
  ELSE self_node

\* the four rebalancing cases; hit is the test of the if statement
mavl_case_LL(self, self_node, hit) ==
  IF hit
  THEN mavl_rotr(Note(self, "LL", self.nodes[self_node].data, TRUE), self_node)
  ELSE self

mavl_case_RR(self, self_node, hit) ==
  IF hit
  THEN mavl_rotl(Note(self, "RR", self.nodes[self_node].data, TRUE), self_node)
  ELSE self

mavl_case_LR(self, self_node, hit) ==
  IF hit
  THEN mavl_rotr(mavl_rotl(Note(self, "LR", self.nodes[self_node].data, TRUE),
                           self.nodes[self_node].left),
                 self_node)
  ELSE self

mavl_case_RL(self, self_node, hit) ==
  IF hit
  THEN mavl_rotl(mavl_rotr(Note(self, "RL", self.nodes[self_node].data, TRUE),
                           self.nodes[self_node].right),
                 self_node)
  ELSE self

\* mutant: the four if statements of push_fix without the one of the
\* left-left case
mavl_push_fix_cases_noLL(self, self_node, bf, lbf, rbf) ==
  mavl_case_RL(
    mavl_case_LR(
      mavl_case_RR(self, self_node, bf = -2 /\ rbf = -1),
      self_node, bf = 2 /\ lbf = -1),
    self_node, bf = -2 /\ rbf = 1)

\* mutant: the four if statements of push_fix, the one of the left-right
\* case testing only the balance factor of self_node
mavl_push_fix_cases_loose(self, self_node, bf, lbf, rbf) ==
  mavl_case_RL(
    mavl_case_LR(
      mavl_case_RR(
        mavl_case_LL(self, self_node, bf = 2 /\ lbf = 1),
        self_node, bf = -2 /\ rbf = -1),
      self_node, bf = 2),
    self_node, bf = -2 /\ rbf = 1)

\* the four if statements of push_fix, with the balance factors read before
mavl_push_fix_cases(self, self_node, bf, lbf, rbf) ==
  mavl_case_RL(
    mavl_case_LR(
      mavl_case_RR(
        mavl_case_LL(self, self_node, bf = 2 /\ lbf = 1),
        self_node, bf = -2 /\ rbf = -1),
      self_node, bf = 2 /\ lbf = -1),
    self_node, bf = -2 /\ rbf = 1)

\* the balance factors of self_node and of its children, then the cases
mavl_push_fix_read(self, self_node, bf, lbf, rbf) ==
  mavl_push_fix_cases(NoteBalance(self, self.nodes[self_node].data,
                                  bf, lbf, rbf),
                      self_node, bf, lbf, rbf)

mavl_push_fix_balanced(self, self_node) ==
  mavl_push_fix_read(self, self_node,
                     mavl_balance(self, self_node),
                     mavl_balance(self, self.nodes[self_node].left),
                     mavl_balance(self, self.nodes[self_node].right))

\* one pass of the body of the while loop of push_fix at self_node
mavl_push_fix_step(self, self_node) ==
  mavl_push_fix_balanced(mavl_upheight(self, self_node), self_node)

RECURSIVE mavl_push_fix(_, _)
\* self_node = self_node->parent, and the loop again
mavl_push_fix_next(self, self_node) ==
  mavl_push_fix(self, self.nodes[self_node].parent)

mavl_push_fix(self, self_node) ==
  IF self_node = self.nil THEN self
  ELSE mavl_push_fix_next(mavl_push_fix_step(self, self_node), self_node)

\* the descent of push: the equal node, or the last node before nil
RECURSIVE mavl_push_descend(_, _, _, _)
mavl_push_descend(self, iterator, parent_iterator, data) ==
  IF iterator = self.nil
  THEN [equal |-> self.nil, parent |-> parent_iterator]
  ELSE IF cmp(self.nodes[iterator].data, data) >= 1
       THEN mavl_push_descend(self, self.nodes[iterator].left, iterator, data)
       ELSE IF cmp(self.nodes[iterator].data, data) <= -1
            THEN mavl_push_descend(self, self.nodes[iterator].right, iterator, data)
            ELSE [equal |-> iterator, parent |-> iterator]

\* mutant: push that counts a duplicate insert in size as well
mavl_push_dupsize(self, data, mallocOk) ==
  LET d == mavl_push_descend(self, self.root, self.nil, data)
  IN  IF d.equal # self.nil
      THEN [self |-> [self EXCEPT !.nodes[d.equal].count = @ + 1,
                                  !.size = @ + 1],
            ret |-> "M_OK", alloc |-> "none"]
      ELSE IF ~mallocOk
      THEN [self |-> self, ret |-> "M_MALLOC_FAILED", alloc |-> "no_node"]
      ELSE
        LET self_node == Malloc(self.nodes, data)
            s0 == mavl_node(self, self_node, data)
            s1 == IF d.parent # self.nil
                  THEN LET a == [s0 EXCEPT !.nodes[self_node].parent = d.parent]
                           b == IF cmp(a.nodes[d.parent].data,
                                       a.nodes[self_node].data) >= 1
                                THEN [a EXCEPT !.nodes[d.parent].left = self_node]
                                ELSE [a EXCEPT !.nodes[d.parent].right = self_node]
                       IN  mavl_push_fix(b, d.parent)
                  ELSE [s0 EXCEPT !.root = self_node]
        IN  [self |-> [s1 EXCEPT !.size = @ + 1], ret |-> "M_OK",
             alloc |-> "ok"]

\* ID##_mavl_push; mallocOk says whether the node allocation succeeds
mavl_push(self, data, mallocOk) ==
  LET d == mavl_push_descend(self, self.root, self.nil, data)
  IN  IF d.equal # self.nil
      THEN [self |-> [self EXCEPT !.nodes[d.equal].count = @ + 1],
            ret |-> "M_OK", alloc |-> "none"]
      ELSE IF ~mallocOk
      THEN [self |-> self, ret |-> "M_MALLOC_FAILED", alloc |-> "no_node"]
      ELSE
        LET self_node == Malloc(self.nodes, data)
            s0 == mavl_node(self, self_node, data)
            s1 == IF d.parent # self.nil
                  THEN LET a == [s0 EXCEPT !.nodes[self_node].parent = d.parent]
                           b == IF cmp(a.nodes[d.parent].data,
                                       a.nodes[self_node].data) >= 1
                                THEN [a EXCEPT !.nodes[d.parent].left = self_node]
                                ELSE [a EXCEPT !.nodes[d.parent].right = self_node]
                       IN  mavl_push_fix(b, d.parent)
                  ELSE [s0 EXCEPT !.root = self_node]
        IN  [self |-> [s1 EXCEPT !.size = @ + 1], ret |-> "M_OK",
             alloc |-> "ok"]

\* dest takes src's place below src's parent (or as root)
mavl_swap_link(self, child, old) ==
  LET p == self.nodes[child].parent
  IN  IF p # self.nil
      THEN IF self.nodes[p].left = old
           THEN [self EXCEPT !.nodes[p].left = child]
           ELSE [self EXCEPT !.nodes[p].right = child]
      ELSE [self EXCEPT !.root = child]

\* n->right->parent = n unless n->right is the sentinel
mavl_own_right(self, n) ==
  IF self.nodes[n].right # self.nil
  THEN [self EXCEPT !.nodes[self.nodes[n].right].parent = n] ELSE self

\* n->left->parent = n unless n->left is the sentinel
mavl_own_left(self, n) ==
  IF self.nodes[n].left # self.nil
  THEN [self EXCEPT !.nodes[self.nodes[n].left].parent = n] ELSE self

\* swap, the right children: temp is dest->right as it was
mavl_swap_right(self, dest, src) ==
  mavl_own_right(
    [mavl_own_right([self EXCEPT !.nodes[dest].right = self.nodes[src].right],
                    dest)
       EXCEPT !.nodes[src].right = self.nodes[dest].right],
    src)

\* swap, the left children: temp is dest->left as it was
mavl_swap_left(self, dest, src) ==
  mavl_own_left(
    [mavl_own_left([self EXCEPT !.nodes[dest].left = self.nodes[src].left],
                   dest)
       EXCEPT !.nodes[src].left = self.nodes[dest].left],
    src)

\* swap, the parents: temp is dest->parent as it was
mavl_swap_parent(self, dest, src) ==
  mavl_swap_link(
    [mavl_swap_link(
       [self EXCEPT !.nodes[dest].parent = self.nodes[src].parent], dest, src)
       EXCEPT !.nodes[src].parent = self.nodes[dest].parent],
    src, dest)

\* ID##_internal_mavl_swap: exchanges the links of dest and src
mavl_swap(self, dest, src) ==
  IF dest = self.nil \/ src = self.nil THEN self
  ELSE Note(mavl_swap_parent(
              mavl_swap_left(mavl_swap_right(self, dest, src), dest, src),
              dest, src),
            "swap", self.nodes[src].data, TRUE)

\* the four if statements of pop_fix, with the balance factors read before
mavl_pop_fix_cases(self, self_node, bf, lbf, rbf) ==
  mavl_case_RL(
    mavl_case_LR(
      mavl_case_RR(
        mavl_case_LL(self, self_node, bf > 1 /\ lbf >= 0),
        self_node, bf < -1 /\ rbf <= 0),
      self_node, bf > 1 /\ lbf < 0),
    self_node, bf < -1 /\ rbf > 0)

mavl_pop_fix_read(self, self_node, bf, lbf, rbf) ==
  mavl_pop_fix_cases(NoteBalance(self, self.nodes[self_node].data,
                                 bf, lbf, rbf),
                     self_node, bf, lbf, rbf)

mavl_pop_fix_balanced(self, self_node) ==
  mavl_pop_fix_read(self, self_node,
                    mavl_balance(self, self_node),
                    mavl_balance(self, self.nodes[self_node].left),
                    mavl_balance(self, self.nodes[self_node].right))

\* mutant: the delete fixup with the exact-equality cases of the insert fixup
mavl_pop_fix_step_exact(self, self_node) == mavl_push_fix_step(self, self_node)

\* one pass of the body of the while loop of pop_fix at self_node
mavl_pop_fix_step(self, self_node) ==
  mavl_pop_fix_balanced(mavl_upheight(self, self_node), self_node)

RECURSIVE mavl_pop_fix(_, _)
\* mutant: the loop ends after the pass that rotated
mavl_pop_fix_next_once(self, self_node) ==
  IF \E i \in 1..Len(self.trace) : self.trace[i].ev \in {"rotl", "rotr"}
  THEN self
  ELSE mavl_pop_fix(self, self.nodes[self_node].parent)

\* self_node = self_node->parent, and the loop again
mavl_pop_fix_next(self, self_node) ==
  mavl_pop_fix(self, self.nodes[self_node].parent)

mavl_pop_fix(self, self_node) ==
  IF self_node = self.nil THEN self
  ELSE mavl_pop_fix_next(mavl_pop_fix_step(self, self_node), self_node)

\* the splice of pop: child (maybe nil) takes self_node's place
mavl_pop_splice(self, self_node) ==
  LET nil == self.nil
      n == self.nodes[self_node]
      down(s, c) == IF n.parent # nil
                    THEN IF s.nodes[n.parent].right = self_node
                         THEN [s EXCEPT !.nodes[n.parent].right = c]
                         ELSE [s EXCEPT !.nodes[n.parent].left = c]
                    ELSE [s EXCEPT !.root = c]
  IN  IF n.left # nil
      THEN down([self EXCEPT !.nodes[n.left].parent = n.parent], n.left)
      ELSE IF n.right # nil
           THEN down([self EXCEPT !.nodes[n.right].parent = n.parent], n.right)
           ELSE down(self, nil)

\* mutant: a node with two children changes places with its predecessor
mavl_pop_swap_pred(self, self_node) ==
  IF self.nodes[self_node].left # self.nil
     /\ self.nodes[self_node].right # self.nil
  THEN mavl_swap(self, self_node,
                 mavl_max_node(self, self.nodes[self_node].left))
  ELSE self

\* pop, a node with two children first changes places with its successor
mavl_pop_swap(self, self_node) ==
  IF self.nodes[self_node].left # self.nil
     /\ self.nodes[self_node].right # self.nil
  THEN mavl_swap(self, self_node,
                 mavl_min_node(self, self.nodes[self_node].right))
  ELSE self

\* the fixup from the parent of the removed node, unless that is the sentinel
mavl_pop_fix_from(self, parent_self_node) ==
  IF parent_self_node # self.nil
  THEN mavl_pop_fix(self, parent_self_node) ELSE self

\* pop after the splice: destructor, free, size, fixup
mavl_pop_remove(self, self_node) ==
  [self |-> mavl_pop_fix_from([self EXCEPT !.nodes = Free(self.nodes, self_node),
                                           !.size = @ - 1],
                              self.nodes[self_node].parent),
   ret |-> "M_OK",
   freed |-> IF self.frd THEN <<self.nodes[self_node].data>> ELSE <<>>]

\* mutant: pop without the test for the empty tree
mavl_pop_noempty(self, data) ==
  LET self_node == mavl_find_node(self, data)
  IN  IF self_node = self.nil
      THEN [self |-> self, ret |-> "M_INVALID_INPUT", freed |-> <<>>]
      ELSE mavl_pop_remove(
             mavl_pop_splice(mavl_pop_swap(self, self_node), self_node),
             self_node)

\* mutant: pop that takes one from a count above 1 and keeps the node
mavl_pop_countdown(self, data) ==
  IF self.root = self.nil
  THEN [self |-> self, ret |-> "M_POP_FROM_EMPTY", freed |-> <<>>]
  ELSE
    LET self_node == mavl_find_node(self, data)
    IN  IF self_node = self.nil
        THEN [self |-> self, ret |-> "M_INVALID_INPUT", freed |-> <<>>]
        ELSE IF self.nodes[self_node].count > 1
        THEN [self |-> [self EXCEPT !.nodes[self_node].count = @ - 1],
              ret |-> "M_OK", freed |-> <<>>]
        ELSE mavl_pop_remove(
               mavl_pop_splice(mavl_pop_swap(self, self_node), self_node),
               self_node)

\* ID##_mavl_pop
mavl_pop(self, data) ==
  IF self.root = self.nil
  THEN [self |-> self, ret |-> "M_POP_FROM_EMPTY", freed |-> <<>>]
  ELSE
    LET self_node == mavl_find_node(self, data)
    IN  IF self_node = self.nil
        THEN [self |-> self, ret |-> "M_INVALID_INPUT", freed |-> <<>>]
        ELSE mavl_pop_remove(
               mavl_pop_splice(mavl_pop_swap(self, self_node), self_node),
               self_node)

\* ID##_mavl_find with a non-NULL accumulator
mavl_find(self, data) ==
  LET self_node == mavl_find_node(self, data)
  IN  IF self_node = self.nil
      THEN [ret |-> "M_NOT_FOUND", acc |-> NULL]
      ELSE [ret |-> "M_OK", acc |-> self.nodes[self_node].data]

\* mutant: the in-order walk that takes the right subtree first
RECURSIVE mavl_traverse_inorder_help_rightfirst(_, _)
mavl_traverse_inorder_help_rightfirst(self, self_node) ==
  IF self_node = self.nil THEN <<>>
  ELSE mavl_traverse_inorder_help_rightfirst(self, self.nodes[self_node].right)
       \o <<self.nodes[self_node].data>>
       \o mavl_traverse_inorder_help_rightfirst(self, self.nodes[self_node].left)

\* the payloads the action is applied to, in the order of the calls
RECURSIVE mavl_traverse_inorder_help(_, _)
mavl_traverse_inorder_help(self, self_node) ==
  IF self_node = self.nil THEN <<>>
  ELSE mavl_traverse_inorder_help(self, self.nodes[self_node].left)
       \o <<self.nodes[self_node].data>>
       \o mavl_traverse_inorder_help(self, self.nodes[self_node].right)

RECURSIVE mavl_traverse_postorder_help(_, _)
mavl_traverse_postorder_help(self, self_node) ==
  IF self_node = self.nil THEN <<>>
  ELSE <<self.nodes[self_node].data>>
       \o mavl_traverse_postorder_help(self, self.nodes[self_node].left)
       \o mavl_traverse_postorder_help(self, self.nodes[self_node].right)

\* the payload read through a node pointer; the data field of the sentinel
\* is never written, so reading it yields the indeterminate value junk
mavl_data(self, self_node, junk) ==
  IF self_node = self.nil THEN junk ELSE self.nodes[self_node].data

\* mutant: min that descends from the root whatever the key
mavl_min_whole(self, data, junk) ==
  [ret |-> "M_OK",
   acc |-> mavl_data(self, mavl_min_node(self, self.root), junk)]

\* ID##_mavl_min with a non-NULL accumulator
mavl_min(self, data, junk) ==
  [ret |-> "M_OK",
   acc |-> mavl_data(self,
                     mavl_min_node(self, mavl_find_node(self, data)), junk)]

\* ID##_mavl_max with a non-NULL accumulator
mavl_max(self, data, junk) ==
  [ret |-> "M_OK",
   acc |-> mavl_data(self,
                     mavl_max_node(self, mavl_find_node(self, data)), junk)]

\* the while loop of pred: up while the node is a left child
RECURSIVE mavl_pred_climb(_, _, _)
mavl_pred_climb(self, iterator, parent_iterator) ==
  IF parent_iterator # self.nil
     /\ self.nodes[parent_iterator].left = iterator
  THEN mavl_pred_climb(self, parent_iterator,
                       self.nodes[parent_iterator].parent)
  ELSE parent_iterator

\* the node whose payload pred stores for the node iterator
mavl_pred_node(self, iterator) ==
  IF self.nodes[iterator].left # self.nil
  THEN mavl_max_node(self, self.nodes[iterator].left)
  ELSE mavl_pred_climb(self, iterator, self.nodes[iterator].parent)

\* pred after find_node returned iterator
mavl_pred_of(self, iterator, junk) ==
  IF iterator = self.nil
  THEN [ret |-> "M_INVALID_INPUT", acc |-> NULL]
  ELSE [ret |-> "M_OK",
        acc |-> mavl_data(self, mavl_pred_node(self, iterator), junk)]

\* ID##_mavl_pred with a non-NULL accumulator
mavl_pred(self, data, junk) ==
  mavl_pred_of(self, mavl_find_node(self, data), junk)

\* the while loop of succ: up while the node is a right child
RECURSIVE mavl_succ_climb(_, _, _)
mavl_succ_climb(self, iterator, parent_iterator) ==
  IF parent_iterator # self.nil
     /\ self.nodes[parent_iterator].right = iterator
  THEN mavl_succ_climb(self, parent_iterator,
                       self.nodes[parent_iterator].parent)
  ELSE parent_iterator

\* mutant: succ that takes the parent without the while loop
mavl_succ_node_noclimb(self, iterator) ==
  IF self.nodes[iterator].right # self.nil
  THEN mavl_min_node(self, self.nodes[iterator].right)
  ELSE self.nodes[iterator].parent

\* the node whose payload succ stores for the node iterator
mavl_succ_node(self, iterator) ==
  IF self.nodes[iterator].right # self.nil
  THEN mavl_min_node(self, self.nodes[iterator].right)
  ELSE mavl_succ_climb(self, iterator, self.nodes[iterator].parent)

\* succ after find_node returned iterator
mavl_succ_of(self, iterator, junk) ==
  IF iterator = self.nil
  THEN [ret |-> "M_INVALID_INPUT", acc |-> NULL]
  ELSE [ret |-> "M_OK",
        acc |-> mavl_data(self, mavl_succ_node(self, iterator), junk)]

\* ID##_mavl_succ with a non-NULL accumulator
mavl_succ(self, data, junk) ==
  mavl_succ_of(self, mavl_find_node(self, data), junk)

\* the while loop of lca from iterator
RECURSIVE mavl_lca_from(_, _, _, _)
mavl_lca_from(self, iterator, left, right) ==
  IF iterator = self.nil
  THEN [ret |-> "M_UNDEFINED_BEHAVIOUR", acc |-> NULL]
  ELSE IF cmp(self.nodes[iterator].data, left) >= 1
          /\ cmp(self.nodes[iterator].data, right) >= 1
       THEN mavl_lca_from(self, self.nodes[iterator].left, left, right)
       ELSE IF cmp(self.nodes[iterator].data, left) <= -1
               /\ cmp(self.nodes[iterator].data, right) <= -1
            THEN mavl_lca_from(self, self.nodes[iterator].right, left, right)
            ELSE [ret |-> "M_OK", acc |-> self.nodes[iterator].data]

\* mutant: lca that looks up the left key only
mavl_lca_leftonly(self, left, right) ==
  IF mavl_find_node(self, left) = self.nil
  THEN [ret |-> "M_INVALID_INPUT", acc |-> NULL]
  ELSE mavl_lca_from(self, self.root, left, right)

\* ID##_mavl_lca with a non-NULL accumulator
mavl_lca(self, left, right) ==
  IF mavl_find_node(self, left) = self.nil
     \/ mavl_find_node(self, right) = self.nil
  THEN [ret |-> "M_INVALID_INPUT", acc |-> NULL]
  ELSE mavl_lca_from(self, self.root, left, right)

\* an object handed to free(): a node, a payload buffer or a tree object
Obj(kind, at) == [kind |-> kind, at |-> at]

\* ID##_internal_mavl_free_help: the nodes in the order they are freed
RECURSIVE mavl_free_help(_, _)
mavl_free_help(self, self_node) ==
  IF self_node = self.nil THEN <<>>
  ELSE mavl_free_help(self, self.nodes[self_node].left)
       \o mavl_free_help(self, self.nodes[self_node].right)
       \o <<self_node>>

\* the free() calls and the frd calls of a destroy that frees the nodes in
\* this order, then the sentinel, then the tree object
mavl_free_log(self, order) ==
  [ret |-> "M_OK",
   freed |-> IF self.frd
             THEN [i \in 1..Len(order) |-> self.nodes[order[i]].data]
             ELSE <<>>,
   released |-> [i \in 1..Len(order) |-> Obj("node", order[i])]
                \o <<Obj("node", self.nil), Obj("tree", NULL)>>]

\* ID##_mavl_free(&self); live says whether *self is not NULL
mavl_free(self, live) ==
  IF live
  THEN mavl_free_log(self, mavl_free_help(self, self.root))
  ELSE [ret |-> "M_FREE_NULL", freed |-> <<>>, released |-> <<>>]

\* ==================================================== scl_avl_tree.c ====
_MAX(A, B) == IF A >= B THEN A ELSE B

\* compare_data applied to two payload pointers.  The comparator reads both
\* payloads; with a NULL payload pointer that read is undefined, and u is
\* the value the call then happens to return.
compare_data(a, b, u) == IF a = NULL \/ b = NULL THEN u ELSE cmp(a, b)

\* create_avl with a comparator; free_data supplied or NULL
create_avl(free_data) ==
  [root |-> NULL, compare_data |-> TRUE, free_data |-> free_data,
   size |-> 0, trace |-> <<>>, nodes |-> <<>>]

\* create_avl_node at address a; dataOk says whether malloc(data_size)
\* succeeds.  When it fails the node is still returned, with data = NULL.
create_avl_node(tree, a, data, dataOk) ==
  [tree EXCEPT !.nodes = tree.nodes @@
      (a :> [data |-> IF dataOk THEN data ELSE NULL, parent |-> NULL,
             left |-> NULL, right |-> NULL, count |-> 1, height |-> 1])]

avl_update_node_height(tree, fix_node) ==
  IF fix_node # NULL
  THEN LET l == tree.nodes[fix_node].left
           r == tree.nodes[fix_node].right
           left_node_height  == IF l # NULL THEN tree.nodes[l].height ELSE 0
           right_node_height == IF r # NULL THEN tree.nodes[r].height ELSE 0
       IN  [tree EXCEPT !.nodes[fix_node].height =
               _MAX(left_node_height, right_node_height) + 1]
  ELSE tree

\* mutant: the re-link with the two sides exchanged
avl_relink_flipped(tree, rotate_node, u) ==
  LET p == tree.nodes[rotate_node].parent
  IN  IF p # NULL
      THEN IF compare_data(tree.nodes[rotate_node].data, tree.nodes[p].data, u) >= 1
           THEN [tree EXCEPT !.nodes[p].left = rotate_node]
           ELSE [tree EXCEPT !.nodes[p].right = rotate_node]
      ELSE [tree EXCEPT !.root = rotate_node]

\* mutant: the re-link without the comparison, always as the left child
avl_relink_left(tree, rotate_node, u) ==
  LET p == tree.nodes[rotate_node].parent
  IN  IF p # NULL
      THEN [tree EXCEPT !.nodes[p].left = rotate_node]
      ELSE [tree EXCEPT !.root = rotate_node]

\* re-link of the rotated sub-root below its new parent, by comparison
avl_relink(tree, rotate_node, u) ==
  LET p == tree.nodes[rotate_node].parent
  IN  IF p # NULL
      THEN IF compare_data(tree.nodes[rotate_node].data, tree.nodes[p].data, u) >= 1
           THEN [tree EXCEPT !.nodes[p].right = rotate_node]
           ELSE [tree EXCEPT !.nodes[p].left = rotate_node]
      ELSE [tree EXCEPT !.root = rotate_node]

\* mutant: the parent link of n is left as it was
avl_set_parent_never(tree, n, p) == tree

\* n->parent = p unless n is NULL
avl_set_parent(tree, n, p) ==
  IF n # NULL THEN [tree EXCEPT !.nodes[n].parent = p] ELSE tree

\* dst->parent = src->parent
avl_copy_parent(tree, dst, src) ==
  [tree EXCEPT !.nodes[dst].parent = tree.nodes[src].parent]

\* the note of a rotation at fix_node that made rotate_node the sub-root:
\* before is the tree when the rotation began, after the tree re-linked
avl_rot_note(before, after, ev, fix_node, rotate_node) ==
  LET p == before.nodes[fix_node].parent
  IN  Note(after, ev, before.nodes[fix_node].data,
           p = NULL
           \/ (before.nodes[p].left = fix_node)
                = (after.nodes[p].left = rotate_node))

\* the pointer assignments of avl_rotate_left, in the order of the code
avl_rotate_left_links(tree, fix_node, rotate_node, rl, u) ==
  avl_relink(
    [avl_copy_parent(
       [avl_set_parent([tree EXCEPT !.nodes[fix_node].right = rl],
                       rl, fix_node)
          EXCEPT !.nodes[rotate_node].left = fix_node],
       rotate_node, fix_node)
       EXCEPT !.nodes[fix_node].parent = rotate_node],
    rotate_node, u)

avl_rotate_left(tree, fix_node, u) ==
  IF fix_node = NULL THEN tree
  ELSE IF tree.nodes[fix_node].right = NULL THEN tree
  ELSE
    LET rotate_node == tree.nodes[fix_node].right
    IN  avl_update_node_height(
          avl_update_node_height(
            avl_rot_note(tree,
                         avl_rotate_left_links(tree, fix_node, rotate_node,
                                               tree.nodes[rotate_node].left, u),
                         "rotate_left", fix_node, rotate_node),
            fix_node),
          rotate_node)

\* the pointer assignments of avl_rotate_right, in the order of the code
avl_rotate_right_links(tree, fix_node, rotate_node, rr, u) ==
  avl_relink(
    [avl_copy_parent(
       [avl_set_parent([tree EXCEPT !.nodes[fix_node].left = rr],
                       rr, fix_node)
          EXCEPT !.nodes[rotate_node].right = fix_node],
       rotate_node, fix_node)
       EXCEPT !.nodes[fix_node].parent = rotate_node],
    rotate_node, u)

avl_rotate_right(tree, fix_node, u) ==
  IF fix_node = NULL THEN tree
  ELSE IF tree.nodes[fix_node].left = NULL THEN tree
  ELSE
    LET rotate_node == tree.nodes[fix_node].left
    IN  avl_update_node_height(
          avl_update_node_height(
            avl_rot_note(tree,
                         avl_rotate_right_links(tree, fix_node, rotate_node,
                                                tree.nodes[rotate_node].right, u),
                         "rotate_right", fix_node, rotate_node),
            fix_node),
          rotate_node)

avl_get_node_balance(tree, fix_node) ==
  IF fix_node = NULL THEN 0
  ELSE LET l == tree.nodes[fix_node].left
           r == tree.nodes[fix_node].right
       IN  IF l = NULL /\ r = NULL THEN 0
           ELSE IF l # NULL /\ r = NULL THEN tree.nodes[l].height
           ELSE IF l = NULL /\ r # NULL THEN -tree.nodes[r].height
           ELSE tree.nodes[l].height - tree.nodes[r].height

\* the four rebalancing cases; hit is the test of the if statement
avl_case_LL(tree, fix_node, hit, u) ==
  IF hit
  THEN avl_rotate_right(Note(tree, "LL", tree.nodes[fix_node].data, TRUE),
                        fix_node, u)
  ELSE tree

avl_case_RR(tree, fix_node, hit, u) ==
  IF hit
  THEN avl_rotate_left(Note(tree, "RR", tree.nodes[fix_node].data, TRUE),
                       fix_node, u)
  ELSE tree

avl_case_LR(tree, fix_node, hit, u) ==
  IF hit
  THEN avl_rotate_right(
         avl_rotate_left(Note(tree, "LR", tree.nodes[fix_node].data, TRUE),
                         tree.nodes[fix_node].left, u),
         fix_node, u)
  ELSE tree

avl_case_RL(tree, fix_node, hit, u) ==
  IF hit
  THEN avl_rotate_left(
         avl_rotate_right(Note(tree, "RL", tree.nodes[fix_node].data, TRUE),
                          tree.nodes[fix_node].right, u),
         fix_node, u)
  ELSE tree

\* the four if statements of avl_insert_fix_node_up, with the balance
\* factors read before
avl_insert_fix_cases(tree, fix_node, bf, lbf, rbf, u) ==
  avl_case_RL(
    avl_case_LR(
      avl_case_RR(
        avl_case_LL(tree, fix_node, 2 = bf /\ 1 = lbf, u),
        fix_node, -2 = bf /\ -1 = rbf, u),
      fix_node, 2 = bf /\ -1 = lbf, u),
    fix_node, -2 = bf /\ 1 = rbf, u)

avl_insert_fix_read(tree, fix_node, bf, lbf, rbf, u) ==
  avl_insert_fix_cases(NoteBalance(tree, tree.nodes[fix_node].data,
                                   bf, lbf, rbf),
                       fix_node, bf, lbf, rbf, u)

avl_insert_fix_balanced(tree, fix_node, u) ==
  avl_insert_fix_read(tree, fix_node,
                      avl_get_node_balance(tree, fix_node),
                      avl_get_node_balance(tree, tree.nodes[fix_node].left),
                      avl_get_node_balance(tree, tree.nodes[fix_node].right),
                      u)

\* one pass of the body of the while loop of avl_insert_fix_node_up
avl_insert_fix_step(tree, fix_node, u) ==
  avl_insert_fix_balanced(avl_update_node_height(tree, fix_node), fix_node, u)

RECURSIVE avl_insert_fix_node_up(_, _, _)
\* mutant: one more pass at fix_node before the loop goes on at its parent
avl_insert_fix_next_again(tree, fix_node, u) ==
  avl_insert_fix_node_up(avl_insert_fix_step(tree, fix_node, u),
                         tree.nodes[fix_node].parent, u)

\* fix_node = fix_node->parent, and the loop again
avl_insert_fix_next(tree, fix_node, u) ==
  avl_insert_fix_node_up(tree, tree.nodes[fix_node].parent, u)

avl_insert_fix_node_up(tree, fix_node, u) ==
  IF fix_node = NULL THEN tree
  ELSE avl_insert_fix_next(avl_insert_fix_step(tree, fix_node, u), fix_node, u)

\* the descent of avl_insert: the equal node, or the last node before NULL
RECURSIVE avl_insert_descend(_, _, _, _)
avl_insert_descend(tree, iterator, parent_iterator, data) ==
  IF iterator = NULL
  THEN [equal |-> NULL, parent |-> parent_iterator]
  ELSE IF compare_data(tree.nodes[iterator].data, data, 0) >= 1
       THEN avl_insert_descend(tree, tree.nodes[iterator].left, iterator, data)
       ELSE IF compare_data(tree.nodes[iterator].data, data, 0) <= -1
            THEN avl_insert_descend(tree, tree.nodes[iterator].right, iterator, data)
            ELSE [equal |-> iterator, parent |-> iterator]

\* mutant: avl_insert that counts a duplicate insert in size as well
avl_insert_dupsize(tree, data, alloc, u) ==
  LET d == avl_insert_descend(tree, tree.root, NULL, data)
  IN  IF d.equal # NULL
      THEN [tree |-> [tree EXCEPT !.nodes[d.equal].count = @ + 1,
                                  !.size = @ + 1],
            ret |-> 0, alloc |-> "none"]
      ELSE IF alloc = "no_node"
      THEN [tree |-> tree, ret |-> 1, alloc |-> alloc]
      ELSE
        LET new_node == Malloc(tree.nodes, data)
            s0 == create_avl_node(tree, new_node, data, alloc = "ok")
            s1 == IF d.parent # NULL
                  THEN LET a == [s0 EXCEPT !.nodes[new_node].parent = d.parent]
                           b == IF compare_data(a.nodes[d.parent].data,
                                                a.nodes[new_node].data, u) >= 1
                                THEN [a EXCEPT !.nodes[d.parent].left = new_node]
                                ELSE [a EXCEPT !.nodes[d.parent].right = new_node]
                       IN  avl_insert_fix_node_up(b, d.parent, u)
                  ELSE [s0 EXCEPT !.root = new_node]
        IN  [tree |-> [s1 EXCEPT !.size = @ + 1], ret |-> 0, alloc |-> alloc]

\* avl_insert.  alloc: "ok", "no_node" (malloc of the node fails) or
\* "no_data" (malloc of the payload fails)
avl_insert(tree, data, alloc, u) ==
  LET d == avl_insert_descend(tree, tree.root, NULL, data)
  IN  IF d.equal # NULL
      THEN [tree |-> [tree EXCEPT !.nodes[d.equal].count = @ + 1], ret |-> 0,
            alloc |-> "none"]
      ELSE IF alloc = "no_node"
      THEN [tree |-> tree, ret |-> 1, alloc |-> alloc]
      ELSE
        LET new_node == Malloc(tree.nodes, data)
            s0 == create_avl_node(tree, new_node, data, alloc = "ok")
            s1 == IF d.parent # NULL
                  THEN LET a == [s0 EXCEPT !.nodes[new_node].parent = d.parent]
                           b == IF compare_data(a.nodes[d.parent].data,
                                                a.nodes[new_node].data, u) >= 1
                                THEN [a EXCEPT !.nodes[d.parent].left = new_node]
                                ELSE [a EXCEPT !.nodes[d.parent].right = new_node]
                       IN  avl_insert_fix_node_up(b, d.parent, u)
                  ELSE [s0 EXCEPT !.root = new_node]
        IN  [tree |-> [s1 EXCEPT !.size = @ + 1], ret |-> 0, alloc |-> alloc]

RECURSIVE avl_find_data_set_root(_, _, _)
avl_find_data_set_root(tree, root, data) ==
  IF root = NULL THEN NULL
  ELSE IF compare_data(tree.nodes[root].data, data, 0) <= -1
       THEN avl_find_data_set_root(tree, tree.nodes[root].right, data)
       ELSE IF compare_data(tree.nodes[root].data, data, 0) >= 1
            THEN avl_find_data_set_root(tree, tree.nodes[root].left, data)
            ELSE root

avl_find_data(tree, data) == avl_find_data_set_root(tree, tree.root, data)

\* mutant: avl_change_data that leaves the count of dest_node as it was
avl_change_data_nocount(tree, dest_node, src_node) ==
  IF dest_node = NULL \/ src_node = NULL THEN tree
  ELSE IF tree.nodes[dest_node].data = NULL \/ tree.nodes[src_node].data = NULL
  THEN tree
  ELSE Note([tree EXCEPT
                 !.nodes[dest_node].data = tree.nodes[src_node].data,
                 !.nodes[dest_node].height = tree.nodes[src_node].height],
            "change_data", tree.nodes[src_node].data, TRUE)

\* avl_change_data: payload bytes, count and height of src_node into dest_node
avl_change_data(tree, dest_node, src_node) ==
  IF dest_node = NULL \/ src_node = NULL THEN tree
  ELSE IF tree.nodes[dest_node].data = NULL \/ tree.nodes[src_node].data = NULL
  THEN tree
  ELSE Note([tree EXCEPT
                 !.nodes[dest_node].data = tree.nodes[src_node].data,
                 !.nodes[dest_node].count = tree.nodes[src_node].count,
                 !.nodes[dest_node].height = tree.nodes[src_node].height],
            "change_data", tree.nodes[src_node].data, TRUE)

RECURSIVE avl_max_node(_, _)
avl_max_node(tree, root) ==
  IF root # NULL /\ tree.nodes[root].right # NULL
  THEN avl_max_node(tree, tree.nodes[root].right)
  ELSE root

\* mutant: the minimum taken to be the node given, without the descent
avl_min_node_here(tree, root) == root

RECURSIVE avl_min_node(_, _)
avl_min_node(tree, root) ==
  IF root # NULL /\ tree.nodes[root].left # NULL
  THEN avl_min_node(tree, tree.nodes[root].left)
  ELSE root

\* the four if statements of avl_delete_fix_node_up, with the balance
\* factors read before
avl_delete_fix_cases(tree, fix_node, bf, lbf, rbf) ==
  avl_case_RL(
    avl_case_LR(
      avl_case_RR(
        avl_case_LL(tree, fix_node, bf > 1 /\ lbf >= 0, 0),
        fix_node, bf < -1 /\ rbf <= 0, 0),
      fix_node, bf > 1 /\ lbf < 0, 0),
    fix_node, bf < -1 /\ rbf > 0, 0)

avl_delete_fix_read(tree, fix_node, bf, lbf, rbf) ==
  avl_delete_fix_cases(NoteBalance(tree, tree.nodes[fix_node].data,
                                   bf, lbf, rbf),
                       fix_node, bf, lbf, rbf)

avl_delete_fix_balanced(tree, fix_node) ==
  avl_delete_fix_read(tree, fix_node,
                      avl_get_node_balance(tree, fix_node),
                      avl_get_node_balance(tree, tree.nodes[fix_node].left),
                      avl_get_node_balance(tree, tree.nodes[fix_node].right))

\* one pass of the body of the while loop of avl_delete_fix_node_up
avl_delete_fix_step(tree, fix_node) ==
  avl_delete_fix_balanced(avl_update_node_height(tree, fix_node), fix_node)

\* mutant: the delete fixup stops after the first node instead of ascending
avl_delete_fix_node_up_once(tree, fix_node) ==
  IF fix_node = NULL THEN tree ELSE avl_delete_fix_step(tree, fix_node)

RECURSIVE avl_delete_fix_node_up(_, _)
\* fix_node = fix_node->parent, and the loop again
avl_delete_fix_next(tree, fix_node) ==
  avl_delete_fix_node_up(tree, tree.nodes[fix_node].parent)

avl_delete_fix_node_up(tree, fix_node) ==
  IF fix_node = NULL THEN tree
  ELSE avl_delete_fix_next(avl_delete_fix_step(tree, fix_node), fix_node)

\* the splice of avl_delete_helper: child (maybe NULL) takes delete_node's place
avl_delete_splice(tree, delete_node) ==
  LET n == tree.nodes[delete_node]
      down(s, c) == IF n.parent # NULL
                    THEN IF s.nodes[n.parent].right = delete_node
                         THEN [s EXCEPT !.nodes[n.parent].right = c]
                         ELSE [s EXCEPT !.nodes[n.parent].left = c]
                    ELSE [s EXCEPT !.root = c]
  IN  IF n.left # NULL
      THEN down([tree EXCEPT !.nodes[n.left].parent = n.parent], n.left)
      ELSE IF n.right # NULL
           THEN down([tree EXCEPT !.nodes[n.right].parent = n.parent], n.right)
           ELSE down(tree, NULL)

\* avl_delete_helper after the splice: free_data, free, fixup, size
avl_delete_remove(tree, delete_node) ==
  [tree |-> [avl_delete_fix_node_up(
               [tree EXCEPT !.nodes = Free(tree.nodes, delete_node)],
               tree.nodes[delete_node].parent)
               EXCEPT !.size = @ - 1],
   freed |-> IF tree.free_data /\ tree.nodes[delete_node].data # NULL
             THEN <<tree.nodes[delete_node].data>> ELSE <<>>]

RECURSIVE avl_delete_helper(_, _, _)
\* the two-children case after avl_change_data: delete the successor's
\* payload from the right subtree
avl_delete_successor(tree, delete_node, delete_succecessor) ==
  avl_delete_helper(tree, tree.nodes[delete_node].right,
                    tree.nodes[delete_succecessor].data)

\* avl_delete_helper; the result carries the payloads given to free_data
avl_delete_helper(tree, root, data) ==
  IF root = NULL \/ data = NULL THEN [tree |-> tree, freed |-> <<>>]
  ELSE
    LET delete_node == avl_find_data_set_root(tree, root, data)
    IN  IF delete_node = NULL THEN [tree |-> tree, freed |-> <<>>]
        ELSE IF tree.nodes[delete_node].left # NULL
                /\ tree.nodes[delete_node].right # NULL
        THEN LET delete_succecessor ==
                   avl_min_node(tree, tree.nodes[delete_node].right)
             IN  avl_delete_successor(
                   avl_change_data(tree, delete_node, delete_succecessor),
                   delete_node, delete_succecessor)
        ELSE avl_delete_remove(avl_delete_splice(tree, delete_node),
                               delete_node)

\* avl_delete
avl_delete(tree, data) ==
  IF tree.root = NULL THEN [tree |-> tree, ret |-> 1, freed |-> <<>>]
  ELSE LET r == avl_delete_helper(tree, tree.root, data)
       IN  [tree |-> r.tree, ret |-> 0, freed |-> r.freed]

\* mutant: the in-order walk that applies the action before the left subtree
RECURSIVE avl_traverse_inorder_helper_early(_, _)
avl_traverse_inorder_helper_early(tree, root) ==
  IF root = NULL THEN <<>>
  ELSE <<tree.nodes[root].data>>
       \o avl_traverse_inorder_helper_early(tree, tree.nodes[root].left)
       \o avl_traverse_inorder_helper_early(tree, tree.nodes[root].right)

RECURSIVE avl_traverse_inorder_helper(_, _)
avl_traverse_inorder_helper(tree, root) ==
  IF root = NULL THEN <<>>
  ELSE avl_traverse_inorder_helper(tree, tree.nodes[root].left)
       \o <<tree.nodes[root].data>>
       \o avl_traverse_inorder_helper(tree, tree.nodes[root].right)

RECURSIVE avl_traverse_postorder_helper(_, _)
avl_traverse_postorder_helper(tree, root) ==
  IF root = NULL THEN <<>>
  ELSE avl_traverse_postorder_helper(tree, tree.nodes[root].left)
       \o avl_traverse_postorder_helper(tree, tree.nodes[root].right)
       \o <<tree.nodes[root].data>>

\* the first-in first-out queue the level traversal is given (its code is
\* outside this repository's sources; modelled from its described contract:
\* push at the back, front and pop at the front, is_empty)
create_queue == <<>>

queue_push(queue, item) == Append(queue, item)

queue_front(queue) == Head(queue)

queue_pop(queue) == Tail(queue)

is_queue_empty(queue) == queue = <<>>

\* mutant: the right child is pushed before the left child
avl_traverse_level_children_flipped(tree, level_queue, front_node) ==
  LET right_pushed ==
        IF front_node # NULL /\ tree.nodes[front_node].right # NULL
        THEN queue_push(level_queue, tree.nodes[front_node].right)
        ELSE level_queue
  IN IF front_node # NULL /\ tree.nodes[front_node].left # NULL
     THEN queue_push(right_pushed, tree.nodes[front_node].left)
     ELSE right_pushed

\* the two pushes of one pass of avl_traverse_level's loop: the left child of
\* the front node if it exists, then the right child if it exists
avl_traverse_level_children(tree, level_queue, front_node) ==
  LET left_pushed ==
        IF front_node # NULL /\ tree.nodes[front_node].left # NULL
        THEN queue_push(level_queue, tree.nodes[front_node].left)
        ELSE level_queue
  IN IF front_node # NULL /\ tree.nodes[front_node].right # NULL
     THEN queue_push(left_pushed, tree.nodes[front_node].right)
     ELSE left_pushed

\* avl_traverse_level's loop: while the queue is not empty, read the front
\* node, pop it, call the action on it, push its children.  `pushed` is every
\* node pushed so far and `log` every node the action was called on, in order
RECURSIVE avl_traverse_level_loop(_, _, _, _)
avl_traverse_level_loop(tree, level_queue, pushed, log) ==
  IF is_queue_empty(level_queue)
  THEN [visited |-> log, pushed |-> pushed, queue |-> level_queue]
  ELSE LET front_node == queue_front(level_queue)
           popped == queue_pop(level_queue)
           next_queue == avl_traverse_level_children(tree, popped, front_node)
       IN avl_traverse_level_loop(
            tree, next_queue,
            pushed \o SubSeq(next_queue, Len(popped) + 1, Len(next_queue)),
            Append(log, front_node))

\* avl_traverse_level: nothing to visit in an empty tree; otherwise the root
\* is pushed and the loop runs
avl_traverse_level(tree) ==
  IF tree.root = NULL
  THEN [visited |-> <<>>, pushed |-> <<>>, queue |-> create_queue]
  ELSE avl_traverse_level_loop(tree, queue_push(create_queue, tree.root),
                               <<tree.root>>, <<>>)

\* mutant: the predecessor climb that goes up while the node is a right child
RECURSIVE avl_predecessor_climb_flipped(_, _, _)
avl_predecessor_climb_flipped(tree, iterator, parent_iterator) ==
  IF parent_iterator # NULL /\ tree.nodes[parent_iterator].right = iterator
  THEN avl_predecessor_climb_flipped(tree, parent_iterator,
                                     tree.nodes[parent_iterator].parent)
  ELSE parent_iterator

\* the while loop of avl_predecessor_node: up while the node is a left child
RECURSIVE avl_predecessor_climb(_, _, _)
avl_predecessor_climb(tree, iterator, parent_iterator) ==
  IF parent_iterator # NULL /\ tree.nodes[parent_iterator].left = iterator
  THEN avl_predecessor_climb(tree, parent_iterator,
                             tree.nodes[parent_iterator].parent)
  ELSE parent_iterator

\* avl_predecessor_node after avl_find_data returned iterator
avl_predecessor_of(tree, iterator) ==
  IF iterator = NULL THEN NULL
  ELSE IF tree.nodes[iterator].left # NULL
       THEN avl_max_node(tree, tree.nodes[iterator].left)
       ELSE avl_predecessor_climb(tree, iterator,
                                  tree.nodes[iterator].parent)

avl_predecessor_node(tree, data) ==
  IF tree.root = NULL \/ data = NULL THEN NULL
  ELSE avl_predecessor_of(tree, avl_find_data(tree, data))

\* the while loop of avl_successor_node: up while the node is a right child
RECURSIVE avl_successor_climb(_, _, _)
avl_successor_climb(tree, iterator, parent_iterator) ==
  IF parent_iterator # NULL /\ tree.nodes[parent_iterator].right = iterator
  THEN avl_successor_climb(tree, parent_iterator,
                           tree.nodes[parent_iterator].parent)
  ELSE parent_iterator

\* avl_successor_node after avl_find_data returned iterator
avl_successor_of(tree, iterator) ==
  IF iterator = NULL THEN NULL
  ELSE IF tree.nodes[iterator].right # NULL
       THEN avl_min_node(tree, tree.nodes[iterator].right)
       ELSE avl_successor_climb(tree, iterator,
                                tree.nodes[iterator].parent)

avl_successor_node(tree, data) ==
  IF tree.root = NULL \/ data = NULL THEN NULL
  ELSE avl_successor_of(tree, avl_find_data(tree, data))

\* the payload pointer of a node pointer: avl_predecessor_data and
\* avl_succecessor_data return it, NULL for a NULL node
avl_node_data(tree, node) ==
  IF node = NULL THEN NULL ELSE tree.nodes[node].data

\* mutant: the lowest common ancestor descent that compares data1 only
RECURSIVE avl_lca_from_first(_, _, _, _)
avl_lca_from_first(tree, iterator, data1, data2) ==
  IF iterator = NULL THEN NULL
  ELSE IF compare_data(tree.nodes[iterator].data, data1, 0) >= 1
       THEN avl_lca_from_first(tree, tree.nodes[iterator].left, data1, data2)
       ELSE IF compare_data(tree.nodes[iterator].data, data1, 0) <= -1
            THEN avl_lca_from_first(tree, tree.nodes[iterator].right,
                                    data1, data2)
            ELSE iterator

\* the while loop of avl_lowest_common_ancestor_node from iterator
RECURSIVE avl_lca_from(_, _, _, _)
avl_lca_from(tree, iterator, data1, data2) ==
  IF iterator = NULL THEN NULL
  ELSE IF compare_data(tree.nodes[iterator].data, data1, 0) >= 1
          /\ compare_data(tree.nodes[iterator].data, data2, 0) >= 1
       THEN avl_lca_from(tree, tree.nodes[iterator].left, data1, data2)
       ELSE IF compare_data(tree.nodes[iterator].data, data1, 0) <= -1
               /\ compare_data(tree.nodes[iterator].data, data2, 0) <= -1
            THEN avl_lca_from(tree, tree.nodes[iterator].right, data1, data2)
            ELSE iterator

avl_lowest_common_ancestor_node(tree, data1, data2) ==
  IF data1 = NULL \/ data2 = NULL THEN NULL
  ELSE IF avl_find_data(tree, data1) = NULL
          \/ avl_find_data(tree, data2) = NULL
       THEN NULL
       ELSE avl_lca_from(tree, tree.root, data1, data2)

\* free_avl_helper: the nodes in the order they are freed
RECURSIVE free_avl_helper(_, _)
free_avl_helper(tree, root) ==
  IF root = NULL THEN <<>>
  ELSE free_avl_helper(tree, tree.nodes[root].left)
       \o free_avl_helper(tree, tree.nodes[root].right)
       \o <<root>>

\* the payloads among these nodes' that are not NULL, in order
RECURSIVE avl_payloads(_, _)
avl_payloads(tree, order) ==
  IF order = <<>> THEN <<>>
  ELSE (IF tree.nodes[Head(order)].data # NULL
        THEN <<tree.nodes[Head(order)].data>> ELSE <<>>)
       \o avl_payloads(tree, Tail(order))

\* the free() calls for these nodes: the payload buffer, then the node
RECURSIVE avl_node_frees(_, _)
avl_node_frees(tree, order) ==
  IF order = <<>> THEN <<>>
  ELSE (IF tree.nodes[Head(order)].data # NULL
        THEN <<Obj("data", Head(order))>> ELSE <<>>)
       \o <<Obj("node", Head(order))>>
       \o avl_node_frees(tree, Tail(order))

\* the free_data calls and the free() calls of free_avl on these nodes
free_avl_log(tree, order) ==
  [freed |-> IF tree.free_data THEN avl_payloads(tree, order) ELSE <<>>,
   released |-> avl_node_frees(tree, order) \o <<Obj("tree", NULL)>>]

\* free_avl(tree); live says whether tree is not NULL
free_avl(tree, live) ==
  IF live
  THEN free_avl_log(tree, free_avl_helper(tree, tree.root))
  ELSE [freed |-> <<>>, released |-> <<>>]

\* ============================================================ actions ====
\* the value of a handle variable that holds NULL (no tree object)
NoTree == [root |-> NULL, nil |-> NULL, cmp |-> FALSE, frd |-> FALSE,
           size |-> 0, trace |-> <<>>, nodes |-> <<>>]
NoAvl == [root |-> NULL, compare_data |-> FALSE, free_data |-> FALSE,
          size |-> 0, trace |-> <<>>, nodes |-> <<>>]

\* a record of one call: its name, key operands (0 for one it does not
\* take), return value and the payload it stored through its accumulator
\* argument / returned node (NULL if none)
Call2(op, key, key2, ret, acc) ==
  [op |-> op, key |-> key, key2 |-> key2, ret |-> ret, acc |-> acc]

Call(op, key, ret, acc) == Call2(op, key, 0, ret, acc)

NoCall == Call("none", 0, "none", NULL)

\* a run that follows no script
NoScript == [keys |-> <<>>, at |-> 0]

\* how many times k occurs in the sequence q
RECURSIVE Occurs(_, _)
Occurs(q, k) ==
  IF q = <<>> THEN 0
  ELSE (IF Head(q) = k THEN 1 ELSE 0) + Occurs(Tail(q), k)

\* the ledger after a call that stored the payload stored (NULL: none) in
\* a new node and passed the payloads destroyed to the destructor
Ledger(stored, destroyed) ==
  [k \in DOMAIN owed |->
      owed[k] + (IF k = stored THEN 1 ELSE 0) - Occurs(destroyed, k)]

Init ==
  /\ mavl = NoTree
  /\ avl = NoAvl
  /\ last = NoCall
  /\ freed = <<>>
  /\ visited = <<>>
  /\ trace = <<>>
  /\ mem = "none"
  /\ ins = [k \in Keys |-> 0]
  /\ released = <<>>
  /\ stale = <<>>
  /\ script = NoScript
  /\ owed = <<>>

\* ID##_mavl(cmp, frd) with a comparator; frd supplied or NULL
MavlCreate(frd) ==
  /\ mavl = NoTree /\ avl = NoAvl /\ stale = <<>>
  /\ mavl' = mavl_create(frd)
  /\ last' = Call("mavl", 0, "handle", NULL)
  /\ freed' = <<>> /\ visited' = <<>> /\ trace' = <<>> /\ mem' = "none"
  /\ UNCHANGED <<avl, ins>>
  /\ released' = <<>> /\ UNCHANGED stale
  /\ UNCHANGED <<script, owed>>

\* mutant: the constructor without the test of the comparator
mavl_new_nocheck(hasCmp, frd) == [mavl_create(frd) EXCEPT !.cmp = hasCmp]

\* ID##_mavl(cmp, frd): NULL when cmp is NULL (hasCmp false)
mavl_new(hasCmp, frd) == IF ~hasCmp THEN NoTree ELSE mavl_create(frd)

\* what a returned constructor leaves in last
CreateReturn(op, made) ==
  last' = Call(op, 0, IF made THEN "handle" ELSE "NULL", NULL)

\* ID##_mavl(NULL, frd)
MavlCreateNoCmp(frd) ==
  /\ mavl = NoTree /\ avl = NoAvl /\ stale = <<>>
  /\ mavl' = mavl_new(FALSE, frd)
  /\ CreateReturn("mavl", mavl_new(FALSE, frd) # NoTree)
  /\ freed' = <<>> /\ visited' = <<>> /\ trace' = <<>> /\ mem' = "none"
  /\ released' = <<>>
  /\ UNCHANGED <<avl, ins, stale, script, owed>>

\* what the call leaves in the tree variable: the tree without its history
Settled(t) == [t EXCEPT !.trace = <<>>]

\* the inserts of key k the environment makes: within the bounds
Offered(k) ==
  /\ ins[k] < MaxCount
  /\ ins[k] = 0 \/ Cardinality({j \in Keys \ {k} : ins[j] > 1}) < MaxDup

\* what a returned push leaves in the variables
MavlPushReturn(r, k) ==
  /\ mavl' = Settled(r.self)
  /\ trace' = r.self.trace
  /\ mem' = r.alloc
  /\ last' = Call("mavl_push", k, r.ret, NULL)
  /\ owed' = Ledger(IF r.alloc = "ok" THEN k ELSE NULL, <<>>)
  /\ ins' = IF r.ret = "M_OK" THEN [ins EXCEPT ![k] = @ + 1] ELSE ins

MavlPush(k, mallocOk) ==
  /\ mavl # NoTree
  /\ Offered(k)
  /\ MavlPushReturn(mavl_push(mavl, k, mallocOk), k)
  /\ freed' = <<>> /\ visited' = <<>>
  /\ UNCHANGED avl
  /\ released' = <<>> /\ UNCHANGED stale
  /\ UNCHANGED script

\* what a returned pop leaves in the variables
MavlPopReturn(r, k) ==
  /\ mavl' = Settled(r.self)
  /\ trace' = r.self.trace
  /\ last' = Call("mavl_pop", k, r.ret, NULL)
  /\ freed' = r.freed
  /\ owed' = Ledger(NULL, r.freed)
  /\ ins' = IF r.ret = "M_OK" THEN [ins EXCEPT ![k] = 0] ELSE ins

MavlPop(k) ==
  /\ mavl # NoTree
  /\ MavlPopReturn(mavl_pop(mavl, k), k)
  /\ visited' = <<>> /\ mem' = "none"
  /\ UNCHANGED avl
  /\ released' = <<>> /\ UNCHANGED stale
  /\ UNCHANGED script

\* every payload pointer in the tree is valid (no comparator call is undefined)
AvlPayloadsValid == \A n \in DOMAIN avl.nodes : avl.nodes[n].data # NULL

AvlCreate(free_data) ==
  /\ mavl = NoTree /\ avl = NoAvl
  /\ avl' = create_avl(free_data)
  /\ last' = Call("create_avl", 0, "handle", NULL)
  /\ freed' = <<>> /\ visited' = <<>> /\ trace' = <<>> /\ mem' = "none"
  /\ UNCHANGED <<mavl, ins>>
  /\ released' = <<>> /\ stale' = <<>>
  /\ UNCHANGED <<script, owed>>

\* create_avl(compare_data, free_data): NULL when compare_data is NULL
\* (hasCompare false)
create_avl_new(hasCompare, free_data) ==
  IF ~hasCompare THEN NoAvl ELSE create_avl(free_data)

\* create_avl(NULL, free_data)
AvlCreateNoCompare(free_data) ==
  /\ mavl = NoTree /\ avl = NoAvl
  /\ avl' = create_avl_new(FALSE, free_data)
  /\ CreateReturn("create_avl", create_avl_new(FALSE, free_data) # NoAvl)
  /\ freed' = <<>> /\ visited' = <<>> /\ trace' = <<>> /\ mem' = "none"
  /\ released' = <<>> /\ stale' = <<>>
  /\ UNCHANGED <<mavl, ins, script, owed>>

\* what a returned avl_insert leaves in the variables
AvlInsertReturn(r, k) ==
  /\ avl' = Settled(r.tree)
  /\ trace' = r.tree.trace
  /\ mem' = r.alloc
  /\ last' = Call("avl_insert", k, r.ret, NULL)
  /\ owed' = Ledger(IF r.alloc = "ok" THEN k ELSE NULL, <<>>)
  /\ ins' = IF r.ret = 0 /\ r.alloc # "no_data"
            THEN [ins EXCEPT ![k] = @ + 1] ELSE ins

\* avl_insert whose allocations succeed, or whose node allocation fails
AvlInsert(k, alloc) ==
  /\ avl # NoAvl /\ AvlPayloadsValid
  /\ Offered(k)
  /\ AvlInsertReturn(avl_insert(avl, k, alloc, 0), k)
  /\ freed' = <<>> /\ visited' = <<>>
  /\ UNCHANGED mavl
  /\ released' = <<>> /\ UNCHANGED stale
  /\ UNCHANGED script

\* what a returned avl_delete leaves in the variables
AvlDeleteReturn(r, k) ==
  /\ avl' = Relocate(Settled(r.tree))
  /\ trace' = r.tree.trace
  /\ last' = Call("avl_delete", k, r.ret, NULL)
  /\ freed' = r.freed
  /\ owed' = Ledger(NULL, r.freed)

AvlDelete(k) ==
  /\ avl # NoAvl /\ AvlPayloadsValid
  /\ AvlDeleteReturn(avl_delete(avl, k), k)
  /\ ins' = [ins EXCEPT ![k] = 0]
  /\ visited' = <<>> /\ mem' = "none"
  /\ UNCHANGED mavl
  /\ released' = <<>> /\ UNCHANGED stale
  /\ UNCHANGED script

MavlFind(k) ==
  /\ mavl # NoTree
  /\ LET r == mavl_find(mavl, k)
     IN  last' = Call("mavl_find", k, r.ret, r.acc)
  /\ freed' = <<>> /\ visited' = <<>> /\ trace' = <<>> /\ mem' = "none"
  /\ UNCHANGED <<mavl, avl, ins>>
  /\ released' = <<>> /\ UNCHANGED stale
  /\ UNCHANGED <<script, owed>>

\* mutant: an in-order traversal that leaves the root pointer at the
\* sentinel, as the walk of free does with the pointers it has followed
MavlTraverseInorder_unlink ==
  /\ mavl # NoTree
  /\ visited' = mavl_traverse_inorder_help(mavl, mavl.root)
  /\ last' = Call("mavl_traverse_inorder", 0, "M_OK", NULL)
  /\ freed' = <<>> /\ trace' = <<>> /\ mem' = "none"
  /\ mavl' = [mavl EXCEPT !.root = mavl.nil]
  /\ released' = <<>>
  /\ UNCHANGED <<avl, ins, stale, script, owed>>

MavlTraverseInorder ==
  /\ mavl # NoTree
  /\ visited' = mavl_traverse_inorder_help(mavl, mavl.root)
  /\ last' = Call("mavl_traverse_inorder", 0, "M_OK", NULL)
  /\ freed' = <<>> /\ trace' = <<>> /\ mem' = "none"
  /\ UNCHANGED <<mavl, avl, ins>>
  /\ released' = <<>> /\ UNCHANGED stale
  /\ UNCHANGED <<script, owed>>

MavlTraversePostorder ==
  /\ mavl # NoTree
  /\ visited' = mavl_traverse_postorder_help(mavl, mavl.root)
  /\ last' = Call("mavl_traverse_postorder", 0, "M_OK", NULL)
  /\ freed' = <<>> /\ trace' = <<>> /\ mem' = "none"
  /\ UNCHANGED <<mavl, avl, ins>>
  /\ released' = <<>> /\ UNCHANGED stale
  /\ UNCHANGED <<script, owed>>

\* avl_find_data: the node found (or NULL) and its payload
AvlFind(k) ==
  /\ avl # NoAvl /\ AvlPayloadsValid
  /\ LET n == avl_find_data(avl, k)
     IN  last' = Call("avl_find_data", k, n,
                      IF n = NULL THEN NULL ELSE avl.nodes[n].data)
  /\ freed' = <<>> /\ visited' = <<>> /\ trace' = <<>> /\ mem' = "none"
  /\ UNCHANGED <<mavl, avl, ins>>
  /\ released' = <<>> /\ UNCHANGED stale
  /\ UNCHANGED <<script, owed>>

AvlTraverseInorder ==
  /\ avl # NoAvl /\ AvlPayloadsValid
  /\ visited' = avl_traverse_inorder_helper(avl, avl.root)
  /\ last' = Call("avl_traverse_inorder", 0, "void", NULL)
  /\ freed' = <<>> /\ trace' = <<>> /\ mem' = "none"
  /\ UNCHANGED <<mavl, avl, ins>>
  /\ released' = <<>> /\ UNCHANGED stale
  /\ UNCHANGED <<script, owed>>

\* avl_traverse_level with an action that records the payload of each node
AvlTraverseLevel ==
  /\ avl # NoAvl /\ AvlPayloadsValid
  /\ visited' = [i \in 1..Len(avl_traverse_level(avl).visited) |->
                   avl.nodes[avl_traverse_level(avl).visited[i]].data]
  /\ last' = Call("avl_traverse_level", 0, "void", NULL)
  /\ freed' = <<>> /\ trace' = <<>> /\ mem' = "none"
  /\ UNCHANGED <<mavl, avl, ins>>
  /\ released' = <<>> /\ UNCHANGED stale
  /\ UNCHANGED <<script, owed>>

AvlTraversePostorder ==
  /\ avl # NoAvl /\ AvlPayloadsValid
  /\ visited' = avl_traverse_postorder_helper(avl, avl.root)
  /\ last' = Call("avl_traverse_postorder", 0, "void", NULL)
  /\ freed' = <<>> /\ trace' = <<>> /\ mem' = "none"
  /\ UNCHANGED <<mavl, avl, ins>>
  /\ released' = <<>> /\ UNCHANGED stale
  /\ UNCHANGED <<script, owed>>

\* what a returned destroy of the sentinel tree leaves in the variables
MavlFreeReturn(r) ==
  /\ last' = Call("mavl_free", 0, r.ret, NULL)
  /\ freed' = r.freed
  /\ owed' = Ledger(NULL, r.freed)
  /\ released' = r.released

\* ID##_mavl_free(&self): *self is NULL afterwards
MavlFree ==
  /\ avl = NoAvl /\ stale = <<>>
  /\ MavlFreeReturn(mavl_free(mavl, mavl # NoTree))
  /\ mavl' = NoTree
  /\ ins' = [k \in DOMAIN ins |-> 0]
  /\ visited' = <<>> /\ trace' = <<>> /\ mem' = "none"
  /\ UNCHANGED <<avl, stale>>
  /\ UNCHANGED script

\* what a returned free_avl leaves in the variables: the caller's pointer
\* is passed by value and keeps leading to what was freed
AvlFreeReturn(r) ==
  /\ last' = Call("free_avl", 0, "void", NULL)
  /\ freed' = r.freed
  /\ owed' = Ledger(NULL, r.freed)
  /\ released' = r.released
  /\ stale' = r.released

\* free_avl(tree) on a NULL pointer or on a live tree
AvlFree ==
  /\ mavl = NoTree /\ stale = <<>>
  /\ avl # NoAvl => AvlPayloadsValid
  /\ AvlFreeReturn(free_avl(avl, avl # NoAvl))
  /\ avl' = NoAvl
  /\ ins' = [k \in DOMAIN ins |-> 0]
  /\ visited' = <<>> /\ trace' = <<>> /\ mem' = "none"
  /\ UNCHANGED mavl
  /\ UNCHANGED script

\* an object that is not a payload buffer
NotPayload(o) == o.kind # "data"

\* free_avl(tree) once more with the pointer of a tree already destroyed.
\* NULL != tree holds, and tree->root is read from freed memory: the call
\* finds the old contents (every data field was set to NULL) and frees
\* every node and the tree object again ("intact"), finds root overwritten
\* with NULL and frees the tree object again ("cleared"), or the allocator
\* detects the first repeated free and ends the process ("abort").
AvlFreeAgain(outcome) ==
  /\ stale # <<>>
  /\ last' = Call("free_avl", 0, IF outcome = "abort" THEN "abort" ELSE "void",
                  NULL)
  /\ released' = IF outcome = "intact" THEN SelectSeq(stale, NotPayload)
                 ELSE IF outcome = "cleared" THEN <<Obj("tree", NULL)>>
                 ELSE <<>>
  /\ stale' = IF outcome = "abort" THEN <<>> ELSE stale
  /\ freed' = <<>> /\ visited' = <<>> /\ trace' = <<>> /\ mem' = "none"
  /\ UNCHANGED <<mavl, avl, ins>>
  /\ UNCHANGED <<script, owed>>

\* avl_insert whose payload allocation fails; u is what the comparator,
\* reading through the NULL payload pointer, happens to return
AvlInsertNoData(k, u) ==
  /\ avl # NoAvl /\ AvlPayloadsValid
  /\ ins[k] = 0
  /\ AvlInsertReturn(avl_insert(avl, k, "no_data", u), k)
  /\ freed' = <<>> /\ visited' = <<>>
  /\ UNCHANGED mavl
  /\ released' = <<>> /\ UNCHANGED stale
  /\ UNCHANGED script

\* what a query leaves in the variables other than last
QueryReturn ==
  /\ freed' = <<>> /\ visited' = <<>> /\ trace' = <<>> /\ mem' = "none"
  /\ released' = <<>>
  /\ UNCHANGED <<mavl, avl, ins, stale>>
  /\ UNCHANGED <<script, owed>>

\* ID##_mavl_pred(self, k, &acc); junk is what the data field of the
\* sentinel holds
MavlPred(k, junk) ==
  /\ mavl # NoTree
  /\ LET r == mavl_pred(mavl, k, junk)
     IN  last' = Call("mavl_pred", k, r.ret, r.acc)
  /\ QueryReturn

MavlSucc(k, junk) ==
  /\ mavl # NoTree
  /\ LET r == mavl_succ(mavl, k, junk)
     IN  last' = Call("mavl_succ", k, r.ret, r.acc)
  /\ QueryReturn

MavlLca(left, right) ==
  /\ mavl # NoTree
  /\ LET r == mavl_lca(mavl, left, right)
     IN  last' = Call2("mavl_lca", left, right, r.ret, r.acc)
  /\ QueryReturn

MavlMin(k, junk) ==
  /\ mavl # NoTree
  /\ LET r == mavl_min(mavl, k, junk)
     IN  last' = Call("mavl_min", k, r.ret, r.acc)
  /\ QueryReturn

MavlMax(k, junk) ==
  /\ mavl # NoTree
  /\ LET r == mavl_max(mavl, k, junk)
     IN  last' = Call("mavl_max", k, r.ret, r.acc)
  /\ QueryReturn

\* what a query of the void-pointer tree that returned node leaves in last
AvlQueryReturn(op, k1, k2, node) ==
  last' = Call2(op, k1, k2, node, avl_node_data(avl, node))

AvlPredecessor(k) ==
  /\ avl # NoAvl /\ AvlPayloadsValid
  /\ AvlQueryReturn("avl_predecessor_node", k, 0, avl_predecessor_node(avl, k))
  /\ QueryReturn

AvlSuccessor(k) ==
  /\ avl # NoAvl /\ AvlPayloadsValid
  /\ AvlQueryReturn("avl_successor_node", k, 0, avl_successor_node(avl, k))
  /\ QueryReturn

\* avl_min_node on the node avl_find_data returns for k
AvlMin(k) ==
  /\ avl # NoAvl /\ AvlPayloadsValid
  /\ AvlQueryReturn("avl_min_node", k, 0,
                    avl_min_node(avl, avl_find_data(avl, k)))
  /\ QueryReturn

\* avl_max_node on the node avl_find_data returns for k
AvlMax(k) ==
  /\ avl # NoAvl /\ AvlPayloadsValid
  /\ AvlQueryReturn("avl_max_node", k, 0,
                    avl_max_node(avl, avl_find_data(avl, k)))
  /\ QueryReturn

AvlLca(data1, data2) ==
  /\ avl # NoAvl /\ AvlPayloadsValid
  /\ AvlQueryReturn("avl_lowest_common_ancestor_node", data1, data2,
                    avl_lowest_common_ancestor_node(avl, data1, data2))
  /\ QueryReturn

Next ==
  \/ \E frd \in BOOLEAN : MavlCreate(frd)
  \/ \E k \in Keys, ok \in BOOLEAN : MavlPush(k, ok)
  \/ \E k \in Keys : MavlPop(k)
  \/ \E free_data \in BOOLEAN : AvlCreate(free_data)
  \/ \E k \in Keys, alloc \in {"ok", "no_node"} : AvlInsert(k, alloc)
  \/ \E k \in Keys : AvlDelete(k)
  \/ \E k \in Keys : MavlFind(k)
  \/ \E k \in Keys : AvlFind(k)
  \/ MavlTraverseInorder
  \/ MavlTraversePostorder
  \/ AvlTraverseInorder
  \/ AvlTraversePostorder
  \/ AvlTraverseLevel
  \/ MavlFree
  \/ AvlFree
  \/ \E outcome \in {"intact", "cleared", "abort"} : AvlFreeAgain(outcome)
  \/ \E frd \in BOOLEAN : MavlCreateNoCmp(frd)
  \/ \E free_data \in BOOLEAN : AvlCreateNoCompare(free_data)

Spec == Init /\ [][Next]_vars

\* the same program in an environment where malloc(data_size) can fail
NextOOM ==
  \/ Next
  \/ \E k \in Keys, u \in {-1, 0, 1} : AvlInsertNoData(k, u)

SpecOOM == Init /\ [][NextOOM]_vars

\* the trees of distinct keys, with the neighbour and ancestor queries
NextQuery ==
  \/ MavlCreate(FALSE)
  \/ AvlCreate(FALSE)
  \/ \E k \in Keys : ins[k] = 0 /\ MavlPush(k, TRUE)
  \/ \E k \in Keys : MavlPop(k)
  \/ \E k \in Keys : ins[k] = 0 /\ AvlInsert(k, "ok")
  \/ \E k \in Keys : AvlDelete(k)
  \/ \E k \in Keys, junk \in Keys \cup {NULL} : MavlPred(k, junk)
  \/ \E k \in Keys, junk \in Keys \cup {NULL} : MavlSucc(k, junk)
  \/ \E left, right \in Keys : MavlLca(left, right)
  \/ \E k \in Keys : AvlPredecessor(k)
  \/ \E k \in Keys : AvlSuccessor(k)
  \/ \E data1, data2 \in Keys : AvlLca(data1, data2)
  \/ \E k \in Keys, junk \in Keys \cup {NULL} : MavlMin(k, junk)
  \/ \E k \in Keys, junk \in Keys \cup {NULL} : MavlMax(k, junk)
  \/ \E k \in Keys : AvlMin(k)
  \/ \E k \in Keys : AvlMax(k)
  \/ \E k \in Keys : MavlFind(k)
  \/ \E k \in Keys : AvlFind(k)
  \/ MavlTraverseInorder
  \/ MavlTraversePostorder
  \/ AvlTraverseInorder
  \/ AvlTraversePostorder
  \/ AvlTraverseLevel

SpecQuery == Init /\ [][NextQuery]_vars

\* -------------------------------------------------------- scripted runs
\* the keys of a scripted run
ScriptKeys == 1..(MaxKey + 1)

\* the orders in which the keys 1..n can be inserted
Orders(n) == {q \in [1..n -> 1..n] : \A i, j \in 1..n : q[i] = q[j] => i = j}

Scripts == UNION {Orders(n) : n \in ScriptKeys}

\* a run that inserts the keys of one script, in its order, into an empty
\* tree
InitScript ==
  /\ mavl = NoTree
  /\ avl = NoAvl
  /\ last = NoCall
  /\ freed = <<>>
  /\ visited = <<>>
  /\ trace = <<>>
  /\ mem = "none"
  /\ ins = [k \in ScriptKeys |-> 0]
  /\ released = <<>>
  /\ stale = <<>>
  /\ script \in {[keys |-> q, at |-> 0] : q \in Scripts}
  /\ owed = <<>>

\* the key the script inserts next
NextKey == script.keys[script.at + 1]

\* ID##_mavl_push of the next key of the script
ScriptedPush ==
  /\ mavl # NoTree
  /\ script.at < Len(script.keys)
  /\ MavlPushReturn(mavl_push(mavl, NextKey, TRUE), NextKey)
  /\ script' = [script EXCEPT !.at = @ + 1]
  /\ freed' = <<>> /\ visited' = <<>> /\ released' = <<>>
  /\ UNCHANGED <<avl, stale>>

\* avl_insert of the next key of the script
ScriptedInsert ==
  /\ avl # NoAvl
  /\ script.at < Len(script.keys)
  /\ AvlInsertReturn(avl_insert(avl, NextKey, "ok", 0), NextKey)
  /\ script' = [script EXCEPT !.at = @ + 1]
  /\ freed' = <<>> /\ visited' = <<>> /\ released' = <<>>
  /\ UNCHANGED <<mavl, stale>>

NextScript ==
  \/ MavlCreate(FALSE)
  \/ AvlCreate(FALSE)
  \/ ScriptedPush
  \/ ScriptedInsert
  \/ MavlTraverseInorder
  \/ AvlTraverseInorder

SpecScript == InitScript /\ [][NextScript]_vars

\* ------------------------------------------------- runs with a ledger
\* a run in which the stored payloads and the destructor calls are counted
InitLife ==
  /\ mavl = NoTree
  /\ avl = NoAvl
  /\ last = NoCall
  /\ freed = <<>>
  /\ visited = <<>>
  /\ trace = <<>>
  /\ mem = "none"
  /\ ins = [k \in Keys |-> 0]
  /\ released = <<>>
  /\ stale = <<>>
  /\ script = NoScript
  /\ owed = [k \in Keys |-> 0]

\* the runs followed: no counter of the ledger is further off than this
LedgerBounded == \A k \in DOMAIN owed : owed[k] \in -1..2

\* trees with a destructor: inserts, deletes, destroy
NextLife ==
  \/ LedgerBounded /\ MavlCreate(TRUE)
  \/ LedgerBounded /\ AvlCreate(TRUE)
  \/ \E k \in Keys : LedgerBounded /\ MavlPush(k, TRUE)
  \/ \E k \in Keys : LedgerBounded /\ MavlPop(k)
  \/ \E k \in Keys : LedgerBounded /\ AvlInsert(k, "ok")
  \/ \E k \in Keys : LedgerBounded /\ AvlDelete(k)
  \/ LedgerBounded /\ MavlFree
  \/ LedgerBounded /\ AvlFree

SpecLife == InitLife /\ [][NextLife]_vars

\* ------------------------------------------------- runs on deeper trees
\* the keys of a run on trees deep enough for a delete to rotate below the
\* root (height 4, seven nodes)
DeepKeys == 1..(MaxKey + 2)

InitDeep ==
  /\ mavl = NoTree
  /\ avl = NoAvl
  /\ last = NoCall
  /\ freed = <<>>
  /\ visited = <<>>
  /\ trace = <<>>
  /\ mem = "none"
  /\ ins = [k \in DeepKeys |-> 0]
  /\ released = <<>>
  /\ stale = <<>>
  /\ script = NoScript
  /\ owed = <<>>

\* inserts of keys the tree does not hold and deletes of keys it holds, in
\* any order, and the level traversal of the trees they build
NextDeep ==
  \/ MavlCreate(FALSE)
  \/ AvlCreate(FALSE)
  \/ \E k \in DeepKeys : ins[k] = 0 /\ MavlPush(k, TRUE)
  \/ \E k \in DeepKeys : ins[k] > 0 /\ MavlPop(k)
  \/ \E k \in DeepKeys : ins[k] = 0 /\ AvlInsert(k, "ok")
  \/ \E k \in DeepKeys : ins[k] > 0 /\ AvlDelete(k)
  \/ AvlTraverseLevel

SpecDeep == InitDeep /\ [][NextDeep]_vars

\* ------------------------------------------ scripted runs with repeats
\* the keys of a run that inserts keys more than once
DupKeys == 1..(MaxKey - 2)

\* the sequences of inserts of such a run: one to MaxCount + 2 inserts
DupScripts == UNION {[1..n -> DupKeys] : n \in 1..(MaxCount + 2)}

InitDup ==
  /\ mavl = NoTree
  /\ avl = NoAvl
  /\ last = NoCall
  /\ freed = <<>>
  /\ visited = <<>>
  /\ trace = <<>>
  /\ mem = "none"
  /\ ins = [k \in DupKeys |-> 0]
  /\ released = <<>>
  /\ stale = <<>>
  /\ script \in {[keys |-> q, at |-> 0] : q \in DupScripts}
  /\ owed = <<>>

\* the inserts of the script are done
ScriptDone == script.at = Len(script.keys)

\* the inserts of one script, in its order, then deletes and finds of any
\* key in any order
NextDup ==
  \/ MavlCreate(FALSE)
  \/ AvlCreate(FALSE)
  \/ ScriptedPush
  \/ ScriptedInsert
  \/ \E k \in DupKeys : ScriptDone /\ MavlPop(k)
  \/ \E k \in DupKeys : ScriptDone /\ AvlDelete(k)
  \/ \E k \in DupKeys : ScriptDone /\ MavlFind(k)
  \/ \E k \in DupKeys : ScriptDone /\ AvlFind(k)

SpecDup == InitDup /\ [][NextDup]_vars

\* ------------------------------------------------ runs on sparse trees
\* the keys of the AVL tree of height 5 with the fewest nodes (12), and of
\* its mirror image, level by level: inserted in this order they need no
\* rotation
SparseScripts == {<<8, 5, 11, 3, 7, 10, 12, 2, 4, 6, 9, 1>>,
                  <<5, 8, 2, 10, 6, 3, 1, 11, 9, 7, 4, 12>>}

SparseKeys == UNION {{q[i] : i \in DOMAIN q} : q \in SparseScripts}

InitSparse ==
  /\ mavl = NoTree
  /\ avl = NoAvl
  /\ last = NoCall
  /\ freed = <<>>
  /\ visited = <<>>
  /\ trace = <<>>
  /\ mem = "none"
  /\ ins = [k \in SparseKeys |-> 0]
  /\ released = <<>>
  /\ stale = <<>>
  /\ script \in {[keys |-> q, at |-> 0] : q \in SparseScripts}
  /\ owed = <<>>

\* the deletes of a run: up to MaxCount, of keys the tree holds
MayDelete(k) ==
  /\ ScriptDone
  /\ ins[k] > 0
  /\ Cardinality({j \in SparseKeys : ins[j] = 0}) < MaxCount

\* the inserts of one script, then deletes
NextSparse ==
  \/ MavlCreate(FALSE)
  \/ AvlCreate(FALSE)
  \/ ScriptedPush
  \/ ScriptedInsert
  \/ \E k \in SparseKeys : MayDelete(k) /\ MavlPop(k)
  \/ \E k \in SparseKeys : MayDelete(k) /\ AvlDelete(k)

SpecSparse == InitSparse /\ [][NextSparse]_vars

\* ========================================================= properties ====
\* The live tree seen without its representation: nil is the value that
\* stands for an absent child (the sentinel, or NULL).
MavlView == [nodes |-> mavl.nodes, root |-> mavl.root, nil |-> mavl.nil,
             size |-> mavl.size, frd |-> mavl.frd]
AvlView  == [nodes |-> avl.nodes, root |-> avl.root, nil |-> NULL,
             size |-> avl.size, frd |-> avl.free_data]
Live == (IF mavl # NoTree THEN {MavlView} ELSE {})
        \cup (IF avl # NoAvl THEN {AvlView} ELSE {})

\* longer than any path of a tree over the addresses
Fuel == MaxKey + 3

Abs(x) == IF x < 0 THEN -x ELSE x
Larger(a, b) == IF a >= b THEN a ELSE b

\* the nodes of the subtree at n, following left and right
RECURSIVE Below(_, _, _)
Below(t, n, fuel) ==
  IF n = t.nil \/ n \notin DOMAIN t.nodes \/ fuel = 0 THEN {}
  ELSE {n} \cup Below(t, t.nodes[n].left, fuel - 1)
           \cup Below(t, t.nodes[n].right, fuel - 1)

NodesOf(t) == Below(t, t.root, Fuel)

\* the height of the subtree at n recomputed from the links (absent = 0);
\* a link to freed memory or an endless path counts as Fuel
RECURSIVE TrueHeight(_, _, _)
TrueHeight(t, n, fuel) ==
  IF n = t.nil THEN 0
  ELSE IF n \notin DOMAIN t.nodes \/ fuel = 0 THEN Fuel
  ELSE 1 + Larger(TrueHeight(t, t.nodes[n].left, fuel - 1),
                  TrueHeight(t, t.nodes[n].right, fuel - 1))

StoredHeight(t, n) ==
  IF n = t.nil \/ n \notin DOMAIN t.nodes THEN 0 ELSE t.nodes[n].height

Present == {k \in DOMAIN ins : ins[k] > 0}

\* the keys of a set in ascending order
RECURSIVE Ascending(_)
Ascending(S) ==
  IF S = {} THEN <<>>
  ELSE LET m == CHOOSE x \in S : \A y \in S : x <= y
       IN  <<m>> \o Ascending(S \ {m})

\* C1: after every call, at every node the recomputed heights of the left
\* and the right subtree differ by at most 1.
C1_Balanced ==
  \A t \in Live : \A n \in NodesOf(t) :
     Abs(TrueHeight(t, t.nodes[n].left, Fuel)
         - TrueHeight(t, t.nodes[n].right, Fuel)) <= 1

\* a delete that had to rebalance with a double rotation has returned
C1_Witness ==
  /\ last.op \in {"mavl_pop", "avl_delete"}
  /\ \E i \in 1..Len(trace) : trace[i].ev \in {"LR", "RL"}

\* C2: after every call, at every node all payloads of the left subtree
\* compare less and all payloads of the right subtree compare greater.
C2_Ordered ==
  \A t \in Live : \A n \in NodesOf(t) :
     /\ \A m \in Below(t, t.nodes[n].left, Fuel) :
           cmp(t.nodes[m].data, t.nodes[n].data) <= -1
     /\ \A m \in Below(t, t.nodes[n].right, Fuel) :
           cmp(t.nodes[m].data, t.nodes[n].data) >= 1

\* a delete of a node with two children that also rotated has returned
C2_Witness ==
  /\ last.op \in {"mavl_pop", "avl_delete"}
  /\ \E i, j \in 1..Len(trace) :
        /\ trace[i].ev \in {"swap", "change_data"}
        /\ trace[j].ev \in {"rotl", "rotr", "rotate_left", "rotate_right"}

\* C3: after every call, every node's stored height is 1 + the larger of
\* the stored heights of its children, an absent child counting 0.
C3_Heights ==
  \A t \in Live : \A n \in NodesOf(t) :
     t.nodes[n].height = 1 + Larger(StoredHeight(t, t.nodes[n].left),
                                    StoredHeight(t, t.nodes[n].right))

\* key 2 was deleted at the root 2 of the tree 2(1, 4(3, 5)): its successor
\* 3 was not its child, and the node now holding 3 is the root
C3_Witness ==
  /\ last.op \in {"mavl_pop", "avl_delete"} /\ last.key = 2
  /\ Len(trace) > 0 /\ trace[1].ev \in {"swap", "change_data"}
  /\ trace[1].key = 3
  /\ Present = {1, 3, 4, 5}
  /\ \E t \in Live : t.root \in DOMAIN t.nodes /\ t.nodes[t.root].data = 3

\* C4: find succeeds exactly for the keys inserted and not deleted since,
\* and then yields the stored payload.
C4_FindIsMembership ==
  /\ mavl # NoTree =>
       \A k \in Keys :
          mavl_find(mavl, k) = IF k \in Present
                               THEN [ret |-> "M_OK", acc |-> k]
                               ELSE [ret |-> "M_NOT_FOUND", acc |-> NULL]
  /\ avl # NoAvl =>
       \A k \in Keys :
          LET n == avl_find_data(avl, k)
          IN  IF k \in Present THEN n # NULL /\ avl.nodes[n].data = k
              ELSE n = NULL

\* find has reported not_found for a deleted key in a tree of three keys
C4_Witness ==
  /\ last.op \in {"mavl_find", "avl_find_data"}
  /\ last.key \notin Present /\ last.acc = NULL
  /\ Cardinality(Present) >= 3

\* C5: size is the number of nodes reachable from the root and the number
\* of distinct keys present.
C5_Size ==
  \A t \in Live :
     /\ t.size = Cardinality(NodesOf(t))
     /\ t.size = Cardinality(Present)

\* a duplicate insert has returned with two or more keys in the tree
C5_Witness ==
  /\ last.op \in {"mavl_push", "avl_insert"}
  /\ ins[last.key] >= 2
  /\ Cardinality(Present) >= 2

\* C6: the count stored with a present key is 1 + the duplicate inserts of
\* that key since it was last absent.
C6_Counts ==
  \A t \in Live : \A n \in NodesOf(t) :
     /\ t.nodes[n].data \in Present
     /\ t.nodes[n].count = ins[t.nodes[n].data]

\* a two-children delete has moved a successor that had been inserted twice
C6_Witness ==
  /\ last.op \in {"mavl_pop", "avl_delete"}
  /\ Len(trace) > 0 /\ trace[1].ev \in {"swap", "change_data"}
  /\ ins[trace[1].key] = 2

\* C7: a delete of a present key k hands to the destructor, when one was
\* supplied, exactly the payload stored under k, once, and no other payload
\* (none at all when no destructor was supplied).
C7_DestructorOnDeleted ==
  [][/\ (last'.op = "mavl_pop" /\ ins[last'.key] > 0)
          => freed' = IF mavl.frd THEN <<last'.key>> ELSE <<>>
     /\ (last'.op = "avl_delete" /\ ins[last'.key] > 0)
          => freed' = IF avl.free_data THEN <<last'.key>> ELSE <<>>]_vars

\* the same for the sentinel tree alone
C7_MavlDestructorOnDeleted ==
  [][(last'.op = "mavl_pop" /\ ins[last'.key] > 0)
        => freed' = IF mavl.frd THEN <<last'.key>> ELSE <<>>]_vars

\* the same for the void-pointer tree when the deleted node has at most one
\* child (no avl_change_data in the call)
C7_AvlDestructorOnSpliced ==
  [][(/\ last'.op = "avl_delete" /\ ins[last'.key] > 0
      /\ \A i \in 1..Len(trace') : trace'[i].ev # "change_data")
        => freed' = IF avl.free_data THEN <<last'.key>> ELSE <<>>]_vars

\* the failure code of an insert: merr_t M_MALLOC_FAILED, or int 1
AllocationFailed(op) == IF op = "mavl_push" THEN "M_MALLOC_FAILED" ELSE 1

\* C8: when an allocation made by an insert fails, the insert returns the
\* failure code and the tree is as it was before the call.
C8_AllocationFailure ==
  [][mem' \in {"no_node", "no_data"}
        => /\ last'.ret = AllocationFailed(last'.op)
           /\ mavl' = mavl
           /\ avl' = avl]_vars

\* the same for a failure of the node allocation alone
C8_NodeAllocationFailure ==
  [][mem' = "no_node"
        => /\ last'.ret = AllocationFailed(last'.op)
           /\ mavl' = mavl
           /\ avl' = avl]_vars

\* C9: an in-order traversal hands to the visitor every present key once,
\* in ascending order.
C9_InorderAscending ==
  last.op \in {"mavl_traverse_inorder", "avl_traverse_inorder"}
     => visited = Ascending(Present)

\* an in-order traversal has returned from a tree of four keys or more, one
\* of them inserted twice, that a delete had rebalanced before
C9_Witness ==
  /\ last.op \in {"mavl_traverse_inorder", "avl_traverse_inorder"}
  /\ Len(visited) >= 4
  /\ \E k \in Keys : ins[k] >= 2
  /\ \E k \in Keys : k \notin Present /\ \E j \in Present : j > k

\* the place of payload k in the visitor's log (0: not visited)
Place(k) ==
  IF \E i \in 1..Len(visited) : visited[i] = k
  THEN CHOOSE i \in 1..Len(visited) : visited[i] = k
  ELSE 0

\* the visitor's log is a post-order of tree t: every node once, and each
\* node after all of its left subtree, which is before all of its right
\* subtree; the root is last
PostOrdered(t) ==
  /\ Len(visited) = Cardinality(NodesOf(t))
  /\ \A n \in NodesOf(t) :
        /\ Place(t.nodes[n].data) > 0
        /\ \A l \in Below(t, t.nodes[n].left, Fuel) :
              Place(t.nodes[l].data) < Place(t.nodes[n].data)
        /\ \A r \in Below(t, t.nodes[n].right, Fuel) :
              /\ Place(t.nodes[r].data) < Place(t.nodes[n].data)
              /\ \A l \in Below(t, t.nodes[n].left, Fuel) :
                    Place(t.nodes[l].data) < Place(t.nodes[r].data)
  /\ Len(visited) >= 2 => visited[Len(visited)] = t.nodes[t.root].data

\* C10: a post-order traversal hands a node to the visitor only after all
\* of its left subtree and then all of its right subtree; with two nodes or
\* more the root is last.
C10_PostorderLeftRightNode ==
  last.op \in {"mavl_traverse_postorder", "avl_traverse_postorder"}
     => \A t \in Live : PostOrdered(t)

\* the same for the void-pointer tree alone
C10_AvlPostorder ==
  last.op = "avl_traverse_postorder" => \A t \in Live : PostOrdered(t)

\* a post-order traversal of the void-pointer tree of height 3 has returned
C10_AvlPostorderReached ==
  /\ last.op = "avl_traverse_postorder"
  /\ Len(visited) >= 4

\* ------------------------------------------------ neighbours and ancestors
MavlQueries == {"mavl_pred", "mavl_succ", "mavl_lca"}
AvlQueries == {"avl_predecessor_node", "avl_successor_node",
               "avl_lowest_common_ancestor_node"}

\* the last call reported success: M_OK, or a node that is not NULL
Answered ==
  IF last.op \in MavlQueries THEN last.ret = "M_OK"
  ELSE IF last.op \in AvlQueries THEN last.ret # NULL
  ELSE FALSE

\* the present keys below / above k
Lower(k) == {j \in Present : j < k}
Upper(k) == {j \in Present : j > k}

\* the greatest / the least key of a set that is not empty
Greatest(S) == CHOOSE m \in S : \A j \in S : j <= m
Least(S) == CHOOSE m \in S : \A j \in S : m <= j

\* C11: for a present key that is not the minimum the predecessor query
\* answers the greatest present key strictly below it, and for a present key
\* that is not the maximum the successor query answers the least present key
\* strictly above it.
C11_Neighbours ==
  /\ (/\ last.op \in {"mavl_pred", "avl_predecessor_node"}
      /\ last.key \in Present /\ Lower(last.key) # {})
        => Answered /\ last.acc = Greatest(Lower(last.key))
  /\ (/\ last.op \in {"mavl_succ", "avl_successor_node"}
      /\ last.key \in Present /\ Upper(last.key) # {})
        => Answered /\ last.acc = Least(Upper(last.key))

\* a predecessor was found two levels up: the key's node has no left child
\* and is the left child of a node that is a right child
C11_Witness ==
  /\ last.op = "avl_predecessor_node" /\ Answered
  /\ \E n \in DOMAIN avl.nodes :
        /\ avl.nodes[n].data = last.key
        /\ avl.nodes[n].left = NULL
        /\ avl.nodes[n].parent # NULL
        /\ avl.nodes[n].parent # last.ret
        /\ avl.nodes[avl.nodes[n].parent].left = n

\* C12: the predecessor query on the least present key, and the successor
\* query on the greatest, report that there is none: the call does not
\* report success.
C12_NoNeighbourAtEnds ==
  /\ (/\ last.op \in {"mavl_pred", "avl_predecessor_node"}
      /\ last.key \in Present /\ Lower(last.key) = {})
        => ~Answered
  /\ (/\ last.op \in {"mavl_succ", "avl_successor_node"}
      /\ last.key \in Present /\ Upper(last.key) = {})
        => ~Answered

\* the same for the void-pointer tree alone: the node returned is NULL
C12_AvlNoNeighbourAtEnds ==
  /\ (/\ last.op = "avl_predecessor_node"
      /\ last.key \in Present /\ Lower(last.key) = {})
        => last.ret = NULL /\ last.acc = NULL
  /\ (/\ last.op = "avl_successor_node"
      /\ last.key \in Present /\ Upper(last.key) = {})
        => last.ret = NULL /\ last.acc = NULL

\* the void-pointer tree was asked for the predecessor of its least key,
\* which is a left child
C12_AvlLeastAsked ==
  /\ last.op = "avl_predecessor_node"
  /\ last.key \in Present /\ Lower(last.key) = {}
  /\ Cardinality(Present) >= 3

\* the key the sentinel tree answers as predecessor / successor of k, and
\* the same for the void-pointer tree (NULL when it returns no node)
MavlPredKey(k) == mavl_pred(mavl, k, NULL).acc
MavlSuccKey(k) == mavl_succ(mavl, k, NULL).acc
AvlPredKey(k) == avl_node_data(avl, avl_predecessor_node(avl, k))
AvlSuccKey(k) == avl_node_data(avl, avl_successor_node(avl, k))

\* C13: in every reachable tree, for every present key k that has a
\* predecessor the successor of that predecessor is k, and for every present
\* key k that has a successor the predecessor of that successor is k.
C13_RoundTrip ==
  /\ mavl # NoTree =>
       \A k \in Present :
          /\ Lower(k) # {} => mavl_succ(mavl, MavlPredKey(k), NULL)
                                 = [ret |-> "M_OK", acc |-> k]
          /\ Upper(k) # {} => mavl_pred(mavl, MavlSuccKey(k), NULL)
                                 = [ret |-> "M_OK", acc |-> k]
  /\ avl # NoAvl =>
       \A k \in Present :
          /\ Lower(k) # {} => AvlSuccKey(AvlPredKey(k)) = k
          /\ Upper(k) # {} => AvlPredKey(AvlSuccKey(k)) = k

\* the successor call has answered for a key whose predecessor query leads
\* back to it, and it found the answer above the parent of the key's node
C13_Witness ==
  /\ last.op = "mavl_succ" /\ Answered
  /\ Upper(last.key) # {}
  /\ MavlPredKey(last.acc) = last.key
  /\ \E n \in DOMAIN mavl.nodes :
        /\ n # mavl.nil
        /\ mavl.nodes[n].data = last.key
        /\ mavl.nodes[n].right = mavl.nil
        /\ mavl.nodes[mavl.nodes[n].parent].data # last.acc

\* the node of tree t that holds key k
NodeOf(t, k) == CHOOSE n \in NodesOf(t) : t.nodes[n].data = k

\* reference: the nodes that have n in their subtree, n included
AncestorsOf(t, n) == {a \in NodesOf(t) : n \in Below(t, a, Fuel)}

\* reference: the common ancestor of n1 and n2 that lies below every other
\* common ancestor
DeepestCommon(t, n1, n2) ==
  CHOOSE a \in AncestorsOf(t, n1) \cap AncestorsOf(t, n2) :
     \A b \in AncestorsOf(t, n1) \cap AncestorsOf(t, n2) :
        a \in Below(t, b, Fuel)

\* C14: for two present keys the lowest common ancestor query reports
\* success (never the outcome after the loop) and yields the payload of the
\* deepest node that has both keys' nodes in its subtree; for twice the same
\* key it yields that key.
C14_LowestCommonAncestor ==
  (/\ last.op \in {"mavl_lca", "avl_lowest_common_ancestor_node"}
   /\ last.key \in Present /\ last.key2 \in Present)
     => /\ Answered
        /\ \A t \in Live :
              last.acc = t.nodes[DeepestCommon(t, NodeOf(t, last.key),
                                               NodeOf(t, last.key2))].data
        /\ last.key = last.key2 => last.acc = last.key

\* the query has answered a node that is neither the root nor one of the
\* two keys' nodes
C14_Witness ==
  /\ last.op = "avl_lowest_common_ancestor_node" /\ Answered
  /\ last.acc \notin {last.key, last.key2}
  /\ last.ret # avl.root

\* the last call refused its operand: M_INVALID_INPUT with the accumulator
\* not written, or no node
Refused ==
  IF last.op \in MavlQueries
  THEN last.ret = "M_INVALID_INPUT" /\ last.acc = NULL
  ELSE last.ret = NULL /\ last.acc = NULL

\* C17: a predecessor, successor or lowest common ancestor query with an
\* operand key that is not present (either key for the lowest common
\* ancestor) reports the invalid-input failure and leaves the tree as it
\* was.
C17_AbsentOperand ==
  [][(/\ last'.op \in MavlQueries \cup AvlQueries
      /\ \/ last'.key \notin Present
         \/ /\ last'.op \in {"mavl_lca", "avl_lowest_common_ancestor_node"}
            /\ last'.key2 \notin Present)
       => /\ Refused'
          /\ mavl' = mavl /\ avl' = avl]_vars

\* the lowest common ancestor query of the sentinel tree was refused for its
\* second operand alone
C17_Witness ==
  /\ last.op = "mavl_lca"
  /\ last.key \in Present /\ last.key2 \notin Present
  /\ last.ret = "M_INVALID_INPUT"

\* ------------------------------------------------------- failed deletions
\* the last delete call reported a failure
DeleteFailed ==
  IF last.op = "mavl_pop" THEN last.ret # "M_OK" ELSE last.ret # 0

\* C15: a delete of a key that is not present, in a tree that is not empty,
\* reports a failure, which a successful removal does not, and leaves the
\* nodes, links, heights, counts and size of the tree as they were.
C15_DeleteAbsent ==
  [][(/\ last'.op \in {"mavl_pop", "avl_delete"}
      /\ Present # {} /\ last'.key \notin Present)
       => /\ DeleteFailed'
          /\ mavl' = mavl /\ avl' = avl]_vars

\* the part that holds in both trees: the tree is left as it was, and the
\* sentinel tree reports M_INVALID_INPUT
C15_DeleteAbsentUnchanged ==
  [][(/\ last'.op \in {"mavl_pop", "avl_delete"}
      /\ Present # {} /\ last'.key \notin Present)
       => /\ last'.op = "mavl_pop" => last'.ret = "M_INVALID_INPUT"
          /\ mavl' = mavl /\ avl' = avl /\ freed' = <<>>]_vars

\* avl_delete has returned for a key that was absent from a tree of three
\* keys or more
C15_AvlAbsentDeleted ==
  /\ last.op = "avl_delete"
  /\ last.key \notin {avl.nodes[n].data : n \in DOMAIN avl.nodes}
  /\ freed = <<>> /\ trace = <<>>
  /\ Cardinality(Present) >= 3

\* the last delete call reported the empty tree: M_POP_FROM_EMPTY, or the 1
\* of avl_delete
EmptyReported ==
  IF last.op = "mavl_pop" THEN last.ret = "M_POP_FROM_EMPTY"
  ELSE last.ret = 1

\* C16: a delete on a tree that has no root reports the empty-structure
\* error and leaves the tree as it was: empty, with size 0.
C16_DeleteFromEmpty ==
  [][(/\ last'.op \in {"mavl_pop", "avl_delete"}
      /\ \A t \in Live : t.root = t.nil)
       => /\ EmptyReported'
          /\ \A t \in Live : t.size = 0
          /\ mavl' = mavl /\ avl' = avl /\ freed' = <<>>]_vars

\* a pop of the sentinel tree has reported the empty tree
C16_Witness ==
  /\ last.op = "mavl_pop" /\ last.ret = "M_POP_FROM_EMPTY"
  /\ mavl.root = mavl.nil /\ mavl.size = 0

\* --------------------------------------------------------------- destroy
\* C18: when a tree is destroyed and then destroyed again, the second call
\* reports that the tree is already freed and hands nothing to free() a
\* second time.
C18_DoubleDestroy ==
  [][(/\ last.op \in {"mavl_free", "free_avl"} /\ released # <<>>
      /\ last'.op = last.op)
       => /\ last'.ret = "M_FREE_NULL"
          /\ released' = <<>>]_vars

\* the same for the sentinel tree alone
C18_MavlDoubleDestroy ==
  [][(/\ last.op = "mavl_free" /\ released # <<>>
      /\ last'.op = "mavl_free")
       => /\ last'.ret = "M_FREE_NULL"
          /\ released' = <<>> /\ freed' = <<>>]_vars

\* ID##_mavl_free has returned for a handle that is NULL
C18_MavlFreedTwice ==
  /\ last.op = "mavl_free" /\ last.ret = "M_FREE_NULL"

\* ------------------------------------------------------ duplicate inserts
\* tree after is tree before with the count of the node that holds key one
\* higher, and nothing else changed
OnlyCountRaised(before, after, key) ==
  \E n \in DOMAIN before.nodes :
     /\ before.nodes[n].data = key
     /\ after = [before EXCEPT !.nodes[n].count = @ + 1]

\* C19: an insert of a key that is already present raises the count of the
\* node that holds it by one and changes nothing else: no node is created,
\* no link, height, other count or the size changes, nothing is allocated
\* and no rebalancing case or rotation is entered.
C19_DuplicateInsert ==
  [][(/\ last'.op \in {"mavl_push", "avl_insert"}
      /\ last'.key \in Present)
       => /\ last'.op = "mavl_push"
               => OnlyCountRaised(mavl, mavl', last'.key) /\ avl' = avl
          /\ last'.op = "avl_insert"
               => OnlyCountRaised(avl, avl', last'.key) /\ mavl' = mavl
          /\ trace' = <<>> /\ mem' = "none"]_vars

\* a key of a void-pointer tree of height 3 was inserted a second time
C19_Witness ==
  /\ last.op = "avl_insert" /\ ins[last.key] = 2
  /\ \E n \in DOMAIN avl.nodes :
        avl.nodes[n].data = last.key /\ avl.nodes[n].count = 2
  /\ Cardinality(DOMAIN avl.nodes) >= 4

\* what an insert call returns after it has linked a node for a new key
NewKeyResult(op) == IF op = "mavl_push" THEN "M_OK" ELSE 0

\* C20: an insert of a key that is already present returns a value that
\* tells the caller of the duplicate: a value other than the one returned
\* for a new key.
C20_DuplicateResult ==
  [][(/\ last'.op \in {"mavl_push", "avl_insert"}
      /\ last'.key \in Present)
       => last'.ret # NewKeyResult(last'.op)]_vars

\* an insert of a new key that allocates its node returns NewKeyResult
C20_NewKeyResult ==
  [][(/\ last'.op \in {"mavl_push", "avl_insert"}
      /\ last'.key \notin Present /\ mem' = "ok")
       => last'.ret = NewKeyResult(last'.op)]_vars

\* the sentinel tree has returned from the second insert of a key
C20_MavlDuplicatePushed ==
  /\ last.op = "mavl_push" /\ ins[last.key] = 2
  /\ last.ret = "M_OK"

\* ----------------------------------------------------- subtree extremes
\* the keys held in the subtree of tree t at the node that holds k
KeysBelow(t, k) == {t.nodes[n].data : n \in Below(t, NodeOf(t, k), Fuel)}

\* the last min / max call reported success: M_OK, or a node
Found ==
  IF last.op \in {"mavl_min", "mavl_max"} THEN last.ret = "M_OK"
  ELSE last.ret # NULL

\* C21: min and max on a present key answer the least and the greatest key
\* of the subtree at the node that holds the key; on the key of the root
\* that is the least and the greatest of all present keys.
C21_SubtreeExtremes ==
  /\ (last.op \in {"mavl_min", "avl_min_node"} /\ last.key \in Present)
        => /\ Found
           /\ \A t \in Live :
                 /\ last.acc = Least(KeysBelow(t, last.key))
                 /\ t.nodes[t.root].data = last.key
                       => last.acc = Least(Present)
  /\ (last.op \in {"mavl_max", "avl_max_node"} /\ last.key \in Present)
        => /\ Found
           /\ \A t \in Live :
                 /\ last.acc = Greatest(KeysBelow(t, last.key))
                 /\ t.nodes[t.root].data = last.key
                       => last.acc = Greatest(Present)

\* min has answered for a node below the root that has a left child, with a
\* key that is not the least of the tree
C21_Witness ==
  /\ last.op = "mavl_min" /\ last.key \in Present /\ Found
  /\ last.acc # last.key
  /\ last.acc # Least(Present)

\* C22: a min or max query whose key is not present, in particular any such
\* query on an empty tree, reports a failure and never success with a
\* payload.
C22_ExtremeOfAbsent ==
  (/\ last.op \in {"mavl_min", "mavl_max", "avl_min_node", "avl_max_node"}
   /\ last.key \notin Present)
     => ~Found

\* the same for the void-pointer tree alone: no node and no payload
C22_AvlExtremeOfAbsent ==
  (/\ last.op \in {"avl_min_node", "avl_max_node"}
   /\ last.key \notin Present)
     => last.ret = NULL /\ last.acc = NULL

\* avl_min_node has returned for a key absent from a tree that is not empty
C22_AvlAbsentAsked ==
  /\ last.op = "avl_min_node"
  /\ last.key \notin Present /\ Present # {}

\* ----------------------------------------------------------- constructor
Constructors == {"mavl", "create_avl"}

\* C23: a constructor call without a comparator fails and returns no
\* handle, so no tree exists without a comparator; with a comparator it
\* returns an empty tree (no root, size 0); on a tree made without a
\* destructor insert and delete call no destructor.
C23_Create ==
  /\ mavl # NoTree => mavl.cmp
  /\ avl # NoAvl => avl.compare_data
  /\ (last.op \in Constructors /\ last.ret = "NULL") => Live = {}
  /\ (last.op \in Constructors /\ last.ret = "handle")
        => /\ Live # {}
           /\ \A t \in Live : t.root = t.nil /\ t.size = 0
  /\ (/\ last.op \in {"mavl_push", "mavl_pop", "avl_insert", "avl_delete"}
      /\ \A t \in Live : ~t.frd)
        => freed = <<>>

\* a delete that moved a payload or rotated has returned on a tree made
\* without a destructor
C23_Witness ==
  /\ last.op = "avl_delete" /\ avl # NoAvl /\ ~avl.free_data
  /\ \E i \in 1..Len(trace) :
        trace[i].ev \in {"change_data", "rotate_left", "rotate_right"}

\* ---------------------------------------------------------------- frame
\* every call that only reads the tree
Queries ==
  MavlQueries \cup AvlQueries
  \cup {"mavl_min", "mavl_max", "avl_min_node", "avl_max_node",
        "mavl_find", "avl_find_data",
        "mavl_traverse_inorder", "mavl_traverse_postorder",
        "avl_traverse_inorder", "avl_traverse_postorder",
        "avl_traverse_level"}

Scenario25 == <<4, 2, 5, 1, 3, 6>>

\* the script was Scenario25 and all of it is inserted
Scenario25Done ==
  script.keys = Scenario25 /\ script.at = Len(Scenario25)

\* C25: after the inserts of 30, 20, 40, 10, 25, 50 in this order into an
\* empty tree the height is at most 4, the root holds 20 or 30, and an
\* in-order traversal yields 10, 20, 25, 30, 40, 50.
C25_Scenario ==
  Scenario25Done =>
     \A t \in Live :
        /\ TrueHeight(t, t.root, Fuel) <= 4
        /\ StoredHeight(t, t.root) <= 4
        /\ t.nodes[t.root].data \in {2, 4}
        /\ last.op \in {"mavl_traverse_inorder", "avl_traverse_inorder"}
              => visited = <<1, 2, 3, 4, 5, 6>>

\* the in-order traversal after the six inserts has returned
C25_Witness ==
  /\ Scenario25Done
  /\ last.op = "mavl_traverse_inorder"
  /\ Len(visited) = 6

Scenario26 == <<1, 2, 3>>

\* the script was Scenario26 and all of it is inserted
Scenario26Done ==
  script.keys = Scenario26 /\ script.at = Len(Scenario26)

\* a note of a rotation
IsRotation(e) == e.ev \in {"rotl", "rotr", "rotate_left", "rotate_right"}

\* C26: the inserts of 1, 2, 3 in this order into an empty tree make one
\* rotation, a left rotation at the node that holds 1, during the third
\* insert; afterwards the root holds 2 and has no parent, and an in-order
\* traversal yields 1, 2, 3.
C26_Scenario ==
  /\ (script.keys = Scenario26 /\ script.at \in {1, 2}
      /\ last.op \in {"mavl_push", "avl_insert"})
        => SelectSeq(trace, IsRotation) = <<>>
  /\ Scenario26Done =>
       /\ last.op \in {"mavl_push", "avl_insert"}
             => /\ Len(SelectSeq(trace, IsRotation)) = 1
                /\ SelectSeq(trace, IsRotation)[1].ev
                      \in {"rotl", "rotate_left"}
                /\ SelectSeq(trace, IsRotation)[1].key = 1
       /\ \A t \in Live :
             /\ t.nodes[t.root].data = 2
             /\ t.nodes[t.root].parent = t.nil
             /\ t.nodes[t.nodes[t.root].left].data = 1
             /\ t.nodes[t.nodes[t.root].right].data = 3
       /\ last.op \in {"mavl_traverse_inorder", "avl_traverse_inorder"}
             => visited = <<1, 2, 3>>

\* the third insert of the scenario has returned, with its rotation noted
C26_Witness ==
  /\ Scenario26Done
  /\ last.op = "mavl_push"
  /\ SelectSeq(trace, IsRotation) # <<>>

\* ------------------------------------------------------ payload lifetime
Destroys == {"mavl_free", "free_avl"}

\* C27: over inserts and deletes followed by a destroy, every payload that
\* an insert stored in a new node is passed to the destructor exactly once
\* in total: at no time has the destructor received a payload more often
\* than it was stored, and after the destroy none is left that it has not
\* received.
C27_DestroyedOnce ==
  \A k \in DOMAIN owed :
     /\ owed[k] >= 0
     /\ last.op \in Destroys => owed[k] = 0

\* the same for the sentinel tree alone; while it lives, exactly the
\* payloads of the present keys are owed
C27_MavlDestroyedOnce ==
  (avl = NoAvl /\ last.op # "free_avl") =>
     \A k \in DOMAIN owed :
        /\ owed[k] = IF k \in Present THEN 1 ELSE 0
        /\ last.op \in Destroys => owed[k] = 0

\* the sentinel tree was destroyed with three payloads or more in it
C27_MavlDestroyed ==
  /\ DOMAIN owed # {}
  /\ last.op = "mavl_free" /\ Len(freed) >= 3

\* ------------------------------------------------------- insert fix-up
Inserts == {"mavl_push", "avl_insert"}

Cases == {"LL", "RR", "LR", "RL"}

IsCase(e) == e.ev \in Cases

IsBalance(e) == e.ev = "balance"

\* C28: in every pass of an insert fix-up the balance factor read at the
\* ancestor is between -2 and +2; when it is +2 the left child's is +1 or
\* -1, when it is -2 the right child's is -1 or +1; and a pass that read +2
\* or -2 entered one of the four cases at that ancestor and rotated it.
C28_FixupBalance ==
  last.op \in Inserts =>
    \A i \in 1..Len(trace) :
      IsBalance(trace[i]) =>
        /\ trace[i].bf \in -2..2
        /\ trace[i].bf = 2 => trace[i].lbf \in {1, -1}
        /\ trace[i].bf = -2 => trace[i].rbf \in {-1, 1}
        /\ trace[i].bf \in {2, -2} =>
             /\ i + 2 <= Len(trace)
             /\ IsCase(trace[i + 1])
             /\ trace[i + 1].key = trace[i].key
             /\ IsRotation(trace[i + 2])

\* an insert has returned whose ascent read +2 at one ancestor with -1 at
\* its left child, and went on to a higher ancestor
C28_Witness ==
  /\ last.op \in Inserts
  /\ \E i, j \in 1..Len(trace) :
        /\ i < j
        /\ IsBalance(trace[i]) /\ trace[i].bf = 2 /\ trace[i].lbf = -1
        /\ IsBalance(trace[j])

\* C29: one insert enters at most one of the four cases over its whole
\* ascent, so it does one rotation (single case) or two (double case), and
\* no pass after the one that entered a case reads a balance factor of +2
\* or -2.
C29_OneCase ==
  last.op \in Inserts =>
    /\ Len(SelectSeq(trace, IsCase)) <= 1
    /\ SelectSeq(trace, IsCase) = <<>>
         => SelectSeq(trace, IsRotation) = <<>>
    /\ \A c \in 1..Len(trace) :
         IsCase(trace[c]) =>
           /\ Len(SelectSeq(trace, IsRotation))
                = (IF trace[c].ev \in {"LL", "RR"} THEN 1 ELSE 2)
           /\ \A j \in (c + 1)..Len(trace) :
                IsBalance(trace[j]) => trace[j].bf \in -1..1

\* an insert has returned that entered a case below the root and then
\* passed at two higher ancestors
C29_Witness ==
  /\ last.op \in Inserts
  /\ \E c \in 1..Len(trace) :
        /\ IsCase(trace[c])
        /\ Len(SelectSeq(SubSeq(trace, c + 1, Len(trace)), IsBalance)) >= 2

\* ------------------------------------------------- re-link of a rotation
Deletes == {"mavl_pop", "avl_delete"}

\* C30: every rotation of an insert or a delete, on a tree whose keys are
\* distinct, linked the new sub-root on the side of the pivot's parent the
\* pivot occupied before: the side chosen by comparing the keys of the new
\* sub-root and of that parent is that side, also after a delete copied
\* the successor's payload over the deleted node's.
C30_RelinkSide ==
  last.op \in Inserts \cup Deletes =>
    \A i \in 1..Len(trace) : IsRotation(trace[i]) => trace[i].ok

\* a delete that copied the successor's payload and then rotated at a node
\* that is not the root has returned
C30_Witness ==
  /\ last.op = "avl_delete"
  /\ Len(trace) > 0 /\ trace[1].ev = "change_data"
  /\ \E i \in 1..Len(trace) :
        /\ IsRotation(trace[i])
        /\ \E n \in DOMAIN avl.nodes :
              /\ avl.nodes[n].data = trace[i].key
              /\ avl.nodes[n].parent # NULL
              /\ avl.nodes[avl.nodes[n].parent].parent # NULL

\* ------------------------------------------- delete of a two-children node
\* the node of the sentinel tree that holds k, and the one of the other tree
MavlNodeOf(k) == CHOOSE n \in DOMAIN mavl.nodes :
                    n # mavl.nil /\ mavl.nodes[n].data = k

AvlNodeOf(k) == CHOOSE n \in DOMAIN avl.nodes : avl.nodes[n].data = k

\* the step is a pop of a key whose node has two children
MavlPopsTwoChildren ==
  /\ last'.op = "mavl_pop" /\ ins[last'.key] > 0
  /\ mavl.nodes[MavlNodeOf(last'.key)].left # mavl.nil
  /\ mavl.nodes[MavlNodeOf(last'.key)].right # mavl.nil

\* the step is an avl_delete of a key whose node has two children
AvlDeletesTwoChildren ==
  /\ last'.op = "avl_delete" /\ ins[last'.key] > 0
  /\ avl.nodes[AvlNodeOf(last'.key)].left # NULL
  /\ avl.nodes[AvlNodeOf(last'.key)].right # NULL

\* the successor's node before the step
MavlSuccessorOf(a) == mavl_min_node(mavl, mavl.nodes[a].right)

AvlSuccessorOf(a) == avl_min_node(avl, avl.nodes[a].right)

\* avl_delete of a two-children node at a with successor node s leaves the
\* tree r when it returns: a is kept and holds the payload and the count of
\* s, in the place it had unless the fix-up rotated; s is the node released
AvlOverwrittenInPlace(r, a, s) ==
  /\ DOMAIN r.nodes = DOMAIN avl.nodes \ {s}
  /\ r.nodes[a].data = avl.nodes[s].data
  /\ r.nodes[a].count = avl.nodes[s].count
  /\ SelectSeq(r.trace, IsRotation) = <<>>
       => /\ r.nodes[a].parent = avl.nodes[a].parent
          /\ r.nodes[a].left = avl.nodes[a].left
  /\ avl' = Relocate(Settled(r))

\* the same statement for the sentinel tree
MavlOverwrittenInPlace(a, s) ==
  /\ DOMAIN mavl'.nodes = DOMAIN mavl.nodes \ {s}
  /\ mavl'.nodes[a].data = mavl.nodes[s].data
  /\ mavl'.nodes[a].count = mavl.nodes[s].count
  /\ SelectSeq(trace', IsRotation) = <<>>
       => /\ mavl'.nodes[a].parent = mavl.nodes[a].parent
          /\ mavl'.nodes[a].left = mavl.nodes[a].left

\* pop of a two-children node at a with successor node s: s is kept with its
\* payload and count and takes the place a had (unless the fix-up rotated);
\* a is the node released
MavlSuccessorMoved(a, s) ==
  /\ DOMAIN mavl'.nodes = DOMAIN mavl.nodes \ {a}
  /\ mavl'.nodes[s].data = mavl.nodes[s].data
  /\ mavl'.nodes[s].count = mavl.nodes[s].count
  /\ SelectSeq(trace', IsRotation) = <<>>
       => /\ mavl'.nodes[s].parent = mavl.nodes[a].parent
          /\ mavl'.nodes[s].left = mavl.nodes[a].left

IsChangeData(e) == e.ev = "change_data"

IsSwap(e) == e.ev = "swap"

\* C32: in a delete of a key whose node has two children the node of the
\* in-order successor has no left child; avl_delete_helper copies a payload
\* once, its one nested call finds the successor's node in the right
\* subtree and removes it, and no second node goes; in ID##_mavl_pop the
\* node to remove has no left child after the one swap, and only it goes.
C32_SuccessorSpliced ==
  [][/\ AvlDeletesTwoChildren
          => /\ avl.nodes[AvlNodeOf(Least(Upper(last'.key)))].left = NULL
             /\ avl_find_data_set_root(
                  avl_change_data(avl, AvlNodeOf(last'.key),
                                  AvlNodeOf(Least(Upper(last'.key)))),
                  avl.nodes[AvlNodeOf(last'.key)].right,
                  Least(Upper(last'.key)))
                  = AvlNodeOf(Least(Upper(last'.key)))
             /\ Len(SelectSeq(trace', IsChangeData)) = 1
             /\ trace'[1] = Event("change_data", Least(Upper(last'.key)),
                                  TRUE, 0, 0, 0)
             /\ avl'.size = avl.size - 1
             /\ Cardinality(DOMAIN avl'.nodes)
                  = Cardinality(DOMAIN avl.nodes) - 1
     /\ MavlPopsTwoChildren
          => /\ mavl.nodes[MavlNodeOf(Least(Upper(last'.key)))].left
                  = mavl.nil
             /\ mavl_pop_swap(mavl, MavlNodeOf(last'.key))
                  .nodes[MavlNodeOf(last'.key)].left = mavl.nil
             /\ Len(SelectSeq(trace', IsSwap)) = 1
             /\ trace'[1] = Event("swap", Least(Upper(last'.key)),
                                  TRUE, 0, 0, 0)
             /\ mavl'.size = mavl.size - 1
             /\ DOMAIN mavl'.nodes
                  = DOMAIN mavl.nodes \ {MavlNodeOf(last'.key)}
    ]_vars

\* an avl_delete of a key whose node had two children has returned from a
\* tree of five keys, after one copy of a payload and a rotation
C32_Witness ==
  /\ last.op = "avl_delete" /\ last.ret = 0
  /\ Len(SelectSeq(trace, IsChangeData)) = 1
  /\ SelectSeq(trace, IsRotation) # <<>>
  /\ Cardinality(Present) = 4

\* ------------------------------------------------------------- sentinel
\* C33: while the sentinel tree exists its sentinel node is as the
\* constructor left it: height 0, and left, right and parent referring to
\* the sentinel itself.
C33_SentinelUnchanged ==
  mavl # NoTree =>
    /\ mavl.nil \in DOMAIN mavl.nodes
    /\ mavl.nodes[mavl.nil].height = 0
    /\ mavl.nodes[mavl.nil].left = mavl.nil
    /\ mavl.nodes[mavl.nil].right = mavl.nil
    /\ mavl.nodes[mavl.nil].parent = mavl.nil

\* a pop has swapped a node with its successor and then rotated
C33_Witness ==
  /\ last.op = "mavl_pop" /\ last.ret = "M_OK"
  /\ SelectSeq(trace, IsSwap) # <<>>
  /\ SelectSeq(trace, IsRotation) # <<>>

\* ---------------------------------------------------------------- links
\* the number of paths from n downwards, a node counted once for every path
\* that reaches it; an endless path counts as Fuel
RECURSIVE PathsBelow(_, _, _)
PathsBelow(t, n, fuel) ==
  IF n = t.nil THEN 0
  ELSE IF n \notin DOMAIN t.nodes \/ fuel = 0 THEN Fuel * Fuel
  ELSE 1 + PathsBelow(t, t.nodes[n].left, fuel - 1)
         + PathsBelow(t, t.nodes[n].right, fuel - 1)

\* the children of n that are present
ChildrenOf(t, n) == {t.nodes[n].left, t.nodes[n].right} \ {t.nil}

\* C34: after every call the root has no parent; every other node of the
\* tree is the left or the right child of its parent, and not both; every
\* present child of a node has that node as parent; and the links from the
\* root form a tree: every node is reached by one path only.
C34_LinksAgree ==
  \A t \in Live :
     /\ t.root # t.nil
          => t.root \in DOMAIN t.nodes /\ t.nodes[t.root].parent = t.nil
     /\ \A n \in NodesOf(t) :
          /\ \A c \in ChildrenOf(t, n) :
                c \in DOMAIN t.nodes /\ t.nodes[c].parent = n
          /\ n # t.root
               => /\ t.nodes[n].parent \in NodesOf(t)
                  /\ (t.nodes[t.nodes[n].parent].left = n)
                        # (t.nodes[t.nodes[n].parent].right = n)
     /\ PathsBelow(t, t.root, Fuel) = Cardinality(NodesOf(t))

\* a delete from a tree of seven keys has moved the successor of the deleted
\* key and rotated twice or more
C34_Witness ==
  /\ last.op \in Deletes
  /\ Len(trace) > 0 /\ (IsSwap(trace[1]) \/ IsChangeData(trace[1]))
  /\ Len(SelectSeq(trace, IsRotation)) >= 2
  /\ Cardinality(Present) = 6

\* ------------------------------------------------ delete of a repeated key
\* C35: one delete of a key whose node has a count of 2 or more removes the
\* key: the call succeeds, a find of the key in the tree it leaves reports
\* not found, no node holds the key, and size and the number of nodes are
\* one less than before.
C35_DeleteRemovesKey ==
  [][/\ (/\ last'.op = "mavl_pop" /\ ins[last'.key] > 0
         /\ mavl.nodes[MavlNodeOf(last'.key)].count >= 2)
          => /\ last'.ret = "M_OK"
             /\ mavl_find(mavl', last'.key).ret = "M_NOT_FOUND"
             /\ \A n \in DOMAIN mavl'.nodes :
                   mavl'.nodes[n].data # last'.key
             /\ mavl'.size = mavl.size - 1
             /\ Cardinality(DOMAIN mavl'.nodes)
                  = Cardinality(DOMAIN mavl.nodes) - 1
     /\ (/\ last'.op = "avl_delete" /\ ins[last'.key] > 0
         /\ avl.nodes[AvlNodeOf(last'.key)].count >= 2)
          => /\ last'.ret = 0
             /\ avl_find_data(avl', last'.key) = NULL
             /\ \A n \in DOMAIN avl'.nodes :
                   avl'.nodes[n].data # last'.key
             /\ avl'.size = avl.size - 1
             /\ Cardinality(DOMAIN avl'.nodes)
                  = Cardinality(DOMAIN avl.nodes) - 1
    ]_vars

\* after a delete, a find of a key that is not held reports not found
C35_FindAfterDelete ==
  /\ (last.op = "mavl_find" /\ ins[last.key] = 0)
        => last.ret = "M_NOT_FOUND"
  /\ (last.op = "avl_find_data" /\ ins[last.key] = 0)
        => last.ret = NULL

\* a pop has succeeded for a key that the run had inserted twice or more,
\* all inserts of the run coming before its deletes, and that had a node
\* with two children
C35_Witness ==
  /\ last.op = "mavl_pop" /\ last.ret = "M_OK"
  /\ ScriptDone
  /\ Occurs(script.keys, last.key) >= 2
  /\ SelectSeq(trace, IsSwap) # <<>>

\* ------------------------------------------------------ delete fix-up
\* C36: a delete from a tree of 12 keys can rotate at two ancestors or more
\* in one ascent (the witness below), and after every delete, also such a
\* one, every node has subtrees whose heights differ by 1 at most and
\* stores the height of its subtree.
C36_RebalancedToRoot ==
  last.op \in Deletes =>
    \A t \in Live : \A n \in NodesOf(t) :
       /\ Abs(TrueHeight(t, t.nodes[n].left, Fuel)
              - TrueHeight(t, t.nodes[n].right, Fuel)) <= 1
       /\ t.nodes[n].height = TrueHeight(t, n, Fuel)

\* a delete has returned that entered a rebalancing case at two different
\* nodes
C36_Witness ==
  /\ last.op \in Deletes
  /\ \E i, j \in 1..Len(trace) :
        /\ i < j
        /\ IsCase(trace[i]) /\ IsCase(trace[j])
        /\ trace[i].key # trace[j].key

\* ---------------------------------------------------------- termination
\* the passes of the fix-up loop of the last call, in order
Passes == SelectSeq(trace, IsBalance)

\* the nodes a descent for key k visits from n: it ends at an absent child
\* or at an equal key; a descent that has not ended after fuel nodes counts
\* as Fuel + 1
RECURSIVE Descent(_, _, _, _)
Descent(t, n, k, fuel) ==
  IF n = t.nil THEN 0
  ELSE IF n \notin DOMAIN t.nodes \/ fuel = 0 THEN Fuel + 1
  ELSE IF cmp(t.nodes[n].data, k) >= 1
       THEN 1 + Descent(t, t.nodes[n].left, k, fuel - 1)
       ELSE IF cmp(t.nodes[n].data, k) <= -1
            THEN 1 + Descent(t, t.nodes[n].right, k, fuel - 1)
            ELSE 1

\* C37: on every reachable tree the descent for any key ends after at most
\* as many nodes as the tree is high; and the ascent of the fix-up of every
\* insert and delete makes finitely many passes: a node is passed a second
\* time only as the new sub-root, in the pass that follows a rotation, and
\* never a third time, and in a delete no node is passed twice; there are
\* at most twice as many passes as the tree is high; and the last pass is
\* at the root of the tree the call leaves.
C37_Terminates ==
  \A t \in Live :
     /\ \A k \in DOMAIN ins :
           Descent(t, t.root, k, Fuel) <= TrueHeight(t, t.root, Fuel)
     /\ last.op \in Inserts \cup Deletes =>
           /\ \A i, j \in 1..Len(trace) :
                 (/\ i < j /\ IsBalance(trace[i]) /\ IsBalance(trace[j])
                  /\ trace[i].key = trace[j].key)
                   => /\ \E c \in (i + 1)..(j - 1) :
                            /\ IsCase(trace[c])
                            /\ \A m \in (c + 1)..(j - 1) :
                                  ~IsBalance(trace[m])
                      /\ \A m \in (j + 1)..Len(trace) :
                            IsBalance(trace[m])
                              => trace[m].key # trace[j].key
           /\ last.op \in Deletes =>
                 \A i, j \in 1..Len(Passes) :
                    i < j => Passes[i].key # Passes[j].key
           /\ Len(Passes) <= 2 * TrueHeight(t, t.root, Fuel)
           /\ Passes # <<>> =>
                 /\ t.root # t.nil
                 /\ Passes[Len(Passes)].key = t.nodes[t.root].data

\* a delete has returned whose ascent rotated and then made a further pass,
\* three passes or more in all
C37_Witness ==
  /\ last.op \in Deletes
  /\ Len(Passes) >= 3
  /\ \E c \in 1..Len(trace) :
        /\ IsCase(trace[c])
        /\ \E m \in (c + 1)..Len(trace) : IsBalance(trace[m])

\* ------------------------------------------------------ level traversal
\* the number of links from the root of the NULL-child tree down to node n
AvlDepthOf(n) == Cardinality(AncestorsOf(AvlView, n)) - 1

\* the place of payload k in the visit log
VisitOf(k) == CHOOSE i \in 1..Len(visited) : visited[i] = k

\* C38: a level-order traversal of a non-empty tree visits every node exactly
\* once, never a node before a node of smaller depth, and within one depth
\* from left to right (a left child before the right child of the same node);
\* the nodes leave the queue in the order they entered it, and the queue is
\* empty when the traversal ends.
C38_LevelOrder ==
  last.op = "avl_traverse_level" /\ avl.root # NULL =>
    /\ Len(visited) = Cardinality(NodesOf(AvlView))
    /\ \A n \in NodesOf(AvlView) :
          Cardinality({i \in 1..Len(visited) :
                          visited[i] = avl.nodes[n].data}) = 1
    /\ \A i, j \in 1..Len(visited) :
          i < j => AvlDepthOf(AvlNodeOf(visited[i]))
                     <= AvlDepthOf(AvlNodeOf(visited[j]))
    /\ \A i, j \in 1..Len(visited) :
          /\ i < j
          /\ AvlDepthOf(AvlNodeOf(visited[i]))
               = AvlDepthOf(AvlNodeOf(visited[j]))
          => LET c == DeepestCommon(AvlView, AvlNodeOf(visited[i]),
                                    AvlNodeOf(visited[j]))
             IN /\ AvlNodeOf(visited[i])
                     \in Below(AvlView, avl.nodes[c].left, Fuel)
                /\ AvlNodeOf(visited[j])
                     \in Below(AvlView, avl.nodes[c].right, Fuel)
    /\ \A n \in NodesOf(AvlView) :
          avl.nodes[n].left # NULL /\ avl.nodes[n].right # NULL
          => VisitOf(avl.nodes[avl.nodes[n].left].data)
               < VisitOf(avl.nodes[avl.nodes[n].right].data)
    /\ visited = [i \in 1..Len(visited) |->
                    avl.nodes[avl_traverse_level(avl).visited[i]].data]
    /\ avl_traverse_level(avl).pushed = avl_traverse_level(avl).visited
    /\ is_queue_empty(avl_traverse_level(avl).queue)

\* a level traversal has returned from a tree of three levels whose last
\* level holds three nodes or more, two of them under different parents
C38_Witness ==
  /\ last.op = "avl_traverse_level" /\ avl.root # NULL
  /\ Len(visited) >= 6
  /\ Cardinality({n \in NodesOf(AvlView) : AvlDepthOf(n) = 2}) >= 3

====
